---- MODULE Spec2Model ----
(***************************************************************************)
(* Model of the Agent Workshop execution engine of nLab:                   *)
(*   backend/app/services/agent_workshop.py  (execute_crew,                *)
(*       stream_workshop_events, _emit_sync, the tools, the callbacks)     *)
(*   backend/app/models/workshop.py          (events, sessions, the store) *)
(*                                                                         *)
(* Three parties act concurrently: the worker thread that runs the         *)
(* blocking crew.kickoff (tools and callbacks publish from it), the        *)
(* engine generator execute_crew that polls the bounded event queue, and   *)
(* the recorder stream_workshop_events that wraps the engine.  Every       *)
(* _emit_sync call of the worker is one atomic step, so the engine can     *)
(* pull events between any two publications.                               *)
(*                                                                         *)
(* Abstractions: wall-clock time is a logical clock that ticks once per    *)
(* created event (ExecutionEvent.timestamp); elapsed time is a difference  *)
(* of clock values and per-agent durations are left out;                   *)
(* _agent_start_times is its key set; the texts of the run are symbolic    *)
(* strings.                                                                *)
(*                                                                         *)
(* Two units are also specified on their own, with their inputs drawn from *)
(* bounded sets: the session store (StoreSpec) and one tool invocation     *)
(* with texts as character sequences (ToolSpec).                           *)
(***************************************************************************)
EXTENDS Integers, Sequences, FiniteSets, TLC

\* ------------------------------------------------------------------ bounds
\* asyncio.Queue(maxsize=500) in the source; the model scales the capacity
\* so that a burst of publications can fill it.
QueueMaxSize == 2
\* number of operations (step notification, tool invocation, task callback)
\* the reasoning engine performs before it returns or raises
MaxWorkerOps == 2

\* MAX_SESSIONS = 50 in the source (models/workshop.py, line 18); the model
\* scales the cap so that a handful of sessions exceeds it.
MAX_SESSIONS == 3
\* number of sessions created while the store is observed
MaxSessionsCreated == 5

\* ------------------------------------------------------- program constants
\* out[:500], result[:500]
PreviewLimit == 500
\* result[:300]
NotePreviewLimit == 300
\* text[:100]
DescriptionLimit == 100

None == "<None>"

\* ---------------------------------------------------------------- the plan
AgentDef(id, name, role, tools, order) ==
    [id |-> id, name |-> name, role |-> role, tools |-> tools, order |-> order]

TaskDef(agent_id, order) == [agent_id |-> agent_id, order |-> order]

CrewPlan(agents, tasks) == [agents |-> agents, tasks |-> tasks]

PlanSolo == CrewPlan(<<AgentDef("a1", "Solo", "solo_role", {}, 0)>>,
                     <<TaskDef("a1", 0)>>)

PlanAB == CrewPlan(<<AgentDef("a1", "A", "role_a", {"web_search"}, 0),
                     AgentDef("a2", "B", "role_b",
                              {"note_taker", "crystal_ball"}, 1)>>,
                   <<TaskDef("a1", 0), TaskDef("a2", 1)>>)

PlanNoAgents == CrewPlan(<<>>, <<TaskDef("a1", 0)>>)

PlanEmpty == CrewPlan(<<>>, <<>>)

Plans == {PlanSolo, PlanAB, PlanNoAgents, PlanEmpty}

\* sorted(seq, key=lambda x: x.order): a stable sort
RECURSIVE InsertByOrder(_, _)
InsertByOrder(s, x) ==
    IF s = <<>> THEN <<x>>
    ELSE IF x.order < Head(s).order THEN <<x>> \o s
    ELSE <<Head(s)>> \o InsertByOrder(Tail(s), x)

RECURSIVE SortedByOrder(_)
SortedByOrder(s) ==
    IF s = <<>> THEN <<>>
    ELSE InsertByOrder(SortedByOrder(SubSeq(s, 1, Len(s) - 1)), s[Len(s)])

\* crewai_role_to_name[agent_def.role] = agent_def.name, in sorted order:
\* a later agent with the same role overwrites an earlier one
RoleToName(plan) ==
    LET sa == SortedByOrder(plan.agents)
        roles == {sa[i].role : i \in 1..Len(sa)}
        lastIdx(r) == CHOOSE i \in 1..Len(sa) :
                         /\ sa[i].role = r
                         /\ \A j \in 1..Len(sa) : sa[j].role = r => j <= i
    IN [r \in roles |-> sa[lastIdx(r)].name]

\* a task whose agent_id is unknown falls back to plan.agents[0].id, or to ""
\* when the plan has no agents; crewai_agents[""] then raises KeyError
TaskAgentUnresolved(plan) ==
    /\ plan.agents = <<>>
    /\ plan.tasks # <<>>

\* --------------------------------------------------------------- the events
NoMeta == [tool |-> "", action |-> "", key |-> "", from |-> "", to |-> "",
           execution_time_seconds |-> 0, total_tool_calls |-> 0,
           agents_used |-> 0]

ExecutionEvent(type, agent_name, content, timestamp, metadata) ==
    [type |-> type, agent_name |-> agent_name, content |-> content,
     timestamp |-> timestamp, metadata |-> metadata]

TOOL_MAP == {"web_search", "calculator", "note_taker", "text_analyzer"}

\* tools = [TOOL_MAP[t]() for t in agent_def.tools if t in TOOL_MAP]: the
\* tools the reasoning engine can invoke are those some agent registers
RegisteredTools(p) ==
    UNION {p.agents[i].tools \cap TOOL_MAP : i \in 1..Len(p.agents)}

\* Python truthiness of _current_agent_name
Truthy(name) == name # None /\ name # ""

NullEvent == ExecutionEvent("", "", "", 0, NoMeta)

\* f"data: {json.dumps(event.model_dump())}\n\n": the frame carries the dump
EventFrame(e) == [sentinel |-> FALSE, event |-> e]

\* json.dumps({'type': 'error', 'content': str(e)}): type and content only
ErrorFrame(msg) ==
    [sentinel |-> FALSE, event |-> ExecutionEvent("error", "", msg, 0, NoMeta)]

\* "data: [DONE]\n\n"
DoneFrame == [sentinel |-> TRUE, event |-> NullEvent]

\* ------------------------------------------------------------ the sessions
WorkshopSession(id, status, events, result, total_tokens) ==
    [id |-> id, status |-> status, events |-> events, result |-> result,
     execution_time_seconds |-> 0, total_tokens |-> total_tokens,
     created_at |-> 0]

IndexOfId(sessions, id) ==
    IF \E i \in 1..Len(sessions) : sessions[i].id = id
    THEN CHOOSE i \in 1..Len(sessions) :
            /\ sessions[i].id = id
            /\ \A j \in 1..(i - 1) : sessions[j].id # id
    ELSE 0

\* mutant of SaveSession: the session is inserted at the front whether or
\* not its id is stored
SaveSession_AlwaysInserts(sessions, session) ==
    LET updated == <<session>> \o sessions
    IN SubSeq(updated, 1, IF Len(updated) < MAX_SESSIONS THEN Len(updated)
                          ELSE MAX_SESSIONS)

\* save_session: replace in place or insert at the front, then cap
SaveSession(sessions, session) ==
    LET existing_idx == IndexOfId(sessions, session.id)
        updated == IF existing_idx # 0
                   THEN [sessions EXCEPT ![existing_idx] = session]
                   ELSE <<session>> \o sessions
    IN SubSeq(updated, 1, IF Len(updated) < MAX_SESSIONS THEN Len(updated)
                          ELSE MAX_SESSIONS)

\* get_session: the first stored session with the id, or None
GetSession(sessions, session_id) ==
    IF IndexOfId(sessions, session_id) # 0
    THEN sessions[IndexOfId(sessions, session_id)]
    ELSE None

\* ---------------------------------------------------------- the note store
NoNotes == [k \in {} |-> ""]

\* mutant of NotePut: a key that has a note keeps it
NotePut_KeepsFirst(notes, key, content) ==
    [k \in DOMAIN notes \cup {key} |->
        IF k \in DOMAIN notes THEN notes[k] ELSE content]

\* _notes_store[key] = content
NotePut(notes, key, content) ==
    [k \in DOMAIN notes \cup {key} |-> IF k = key THEN content ELSE notes[k]]

\* _notes_store.get(key, default)
NoteGet(notes, key, default) ==
    IF key \in DOMAIN notes THEN notes[key] ELSE default

\* arguments of a tool invocation; only note_taker reads action and key
ToolArgs(action, key, content) ==
    [action |-> action, key |-> key, content |-> content]

NoArgs == ToolArgs("", "", "")

NoteKeys == {"k1"}

NoteContents == {"n1"}

\* the argument values the reasoning engine passes to a tool
ArgsOf(tool) ==
    IF tool = "note_taker"
    THEN {ToolArgs("save", k, c) : k \in NoteKeys, c \in NoteContents}
         \cup {ToolArgs("retrieve", k, "") : k \in NoteKeys}
    ELSE {NoArgs}

NoVersions == [id \in {} |-> None]

UnusedToolRun == [pc |-> "unused"]

UnusedNoteRun == [phase |-> "unused"]

UnusedSynthesis == [pc |-> "unused"]

UnusedPair == [overlapped |-> FALSE]

UnusedVault == [ops |-> 0]

\* ---------------------------------------------------------------- the state
VARIABLES
    plan,                 \* the CrewPlan of the run
    stream_pc,            \* position of stream_workshop_events
    session,              \* the WorkshopSession the recorder owns
    stored_sessions,      \* content of workshop_sessions.json
    events_collected,     \* recorder's accumulator
    result_text,          \* recorder's captured crew_complete content
    total_tools,          \* recorder's captured total_tool_calls
    exec_time,            \* recorder's captured execution_time_seconds
    frames,               \* frames sent to the caller, in order
    ec_pc,                \* position of execute_crew
    event_queue,          \* _event_queue: [open, items]; open = FALSE is None
    current_agent_name,   \* _current_agent_name
    agent_start_times,    \* key set of _agent_start_times
    notes_store,          \* _notes_store: key -> content
    start_time,           \* execute_crew's start_time
    elapsed,              \* execute_crew's elapsed
    crewai_role_to_name,  \* role -> declared agent name
    total_tool_calls,     \* execute_crew's counter
    exc,                  \* message of the exception caught at the boundary
    yielded,              \* events execute_crew has yielded, in order
    worker_pc,            \* position of the thread running crew.kickoff
    worker_ops,           \* operations the reasoning engine has performed
    worker_tool,          \* tool whose _run is between its two publications
    worker_args,          \* arguments of that invocation
    worker_tool_out,      \* string the last _run returned to its caller
    worker_result,        \* what crew.kickoff returned
    worker_new_name,      \* new_name of the step_callback in progress
    clock,                \* logical time: one tick per created event
    accepted,             \* history: events put_nowait accepted, in order
    n_emitted,            \* history: number of _emit_sync calls
    n_dropped,            \* history: number of events dropped on QueueFull
    drained,              \* history: events pulled by the final drain
    same_agent_steps,     \* history: step notifications naming the active agent
    agent_changes,        \* history: step notifications naming another agent
    save_log,             \* history: the save_session calls of the recorder
    saved_versions,       \* StoreSpec: id -> session last passed to save_session
    tool_run,             \* ToolSpec: the tool invocation under observation
    note_run,             \* NoteSpec: the note_taker invocations of serial runs
    synthesis,            \* PlanSpec: one plan_crew call
    pair,                 \* PairSpec: two execute_crew calls in one process
    vault                 \* VaultSpec: the documents table of the vault

recorder_vars == <<session, stored_sessions, events_collected, result_text,
                   total_tools, exec_time, frames, stream_pc, save_log>>

engine_vars == <<ec_pc, crewai_role_to_name, start_time, elapsed,
                 total_tool_calls, exc, yielded>>

global_vars == <<event_queue, current_agent_name, agent_start_times,
                 notes_store>>

worker_vars == <<worker_pc, worker_ops, worker_tool, worker_args,
                 worker_tool_out,
                 worker_new_name, worker_result, same_agent_steps, agent_changes>>

history_vars == <<accepted, n_emitted, n_dropped, drained>>

\* state of the unit specifications, untouched by a run
aux_vars == <<note_run, synthesis, pair, vault>>

unit_vars == <<saved_versions, tool_run, aux_vars>>

vars == <<plan, recorder_vars, engine_vars, global_vars, worker_vars, clock,
          history_vars, unit_vars>>

\* the unit specifications other than the session store and the tool
\* invocation are not in use
AuxUnused ==
    /\ note_run = UnusedNoteRun
    /\ synthesis = UnusedSynthesis
    /\ pair = UnusedPair
    /\ vault = UnusedVault

SessionId == "s1"

\* the state of the module before a run, the position of the recorder
\* left open
CallInit ==
    /\ session = WorkshopSession(SessionId, "running", <<>>, "", 0)
    /\ stored_sessions = <<>>
    /\ events_collected = <<>>
    /\ result_text = ""
    /\ total_tools = 0
    /\ exec_time = 0
    /\ frames = <<>>
    /\ save_log = <<>>
    /\ ec_pc = "not_started"
    /\ notes_store = NoNotes
    /\ start_time = 0
    /\ elapsed = 0
    /\ worker_args = NoArgs
    /\ worker_tool_out = ""
    /\ worker_result = ""
    /\ same_agent_steps = 0
    /\ agent_changes = 0
    /\ event_queue = [open |-> FALSE, items |-> <<>>]
    /\ current_agent_name = None
    /\ agent_start_times = {}
    /\ crewai_role_to_name = [r \in {} |-> ""]
    /\ total_tool_calls = 0
    /\ exc = ""
    /\ yielded = <<>>
    /\ worker_pc = "not_started"
    /\ worker_ops = 0
    /\ worker_tool = ""
    /\ worker_new_name = None
    /\ clock = 1
    /\ accepted = <<>>
    /\ n_emitted = 0
    /\ n_dropped = 0
    /\ drained = <<>>

\* the state of the module before a run: session built, nothing started
RunInit ==
    /\ stream_pc = "start"
    /\ CallInit

Init ==
    /\ plan \in Plans
    /\ RunInit
    /\ saved_versions = NoVersions
    /\ tool_run = UnusedToolRun
    /\ AuxUnused

\* ------------------------------------------------------------ the channel
QueueFull(q) == Len(q.items) >= QueueMaxSize

\* mutant of EmitSync: the queue is created without maxsize
EmitSync_Unbounded(q, e) ==
    IF q.open THEN [q EXCEPT !.items = Append(@, e)] ELSE q

\* _emit_sync: put_nowait when the queue exists; QueueFull is swallowed
EmitSync(q, e) ==
    IF q.open /\ ~QueueFull(q)
    THEN [q EXCEPT !.items = Append(@, e)]
    ELSE q

\* mutant of QueueGet: the newest event is handed out
QueueGet_Newest(q) == q.items[Len(q.items)]

\* _event_queue.get() / get_nowait(): the oldest event
QueueGet(q) == Head(q.items)

QueueRest(q) == [q EXCEPT !.items = Tail(@)]

\* one _emit_sync call of the worker thread, with its bookkeeping
Emit(e) ==
    /\ event_queue' = EmitSync(event_queue, e)
    /\ accepted' = IF event_queue.open /\ ~QueueFull(event_queue)
                   THEN Append(accepted, e) ELSE accepted
    /\ n_dropped' = IF event_queue.open /\ QueueFull(event_queue)
                    THEN n_dropped + 1 ELSE n_dropped
    /\ n_emitted' = n_emitted + 1
    /\ clock' = clock + 1
    /\ UNCHANGED drained

\* if event.type == EventType.TOOL_CALL: total_tool_calls += 1
CountToolCall(n, e) == IF e.type = "tool_call" THEN n + 1 ELSE n

\* ----------------------------------------------------------- the recorder
\* one event handed from execute_crew to the `async for` body of
\* stream_workshop_events: collected, framed, crew_complete captured
Yield(e) ==
    /\ yielded' = Append(yielded, e)
    /\ events_collected' = Append(events_collected, e)
    /\ frames' = Append(frames, EventFrame(e))
    /\ result_text' = IF e.type = "crew_complete" THEN e.content
                      ELSE result_text
    /\ exec_time' = IF e.type = "crew_complete"
                    THEN e.metadata.execution_time_seconds ELSE exec_time
    /\ total_tools' = IF e.type = "crew_complete"
                      THEN e.metadata.total_tool_calls ELSE total_tools
    /\ UNCHANGED <<session, stored_sessions, stream_pc, save_log>>

\* one save_session call as the recorder makes it: what is saved, how many
\* frames the caller has been sent, whether the write succeeded
SaveCall(saved, n_frames, ok) ==
    [status |-> saved.status, frames_before |-> n_frames, ok |-> ok]

\* WorkshopSession(status=RUNNING); save_session(session).  _save_json does
\* not catch OSError, so a failed write leaves the generator by an exception.
StreamStart ==
    /\ stream_pc = "start"
    /\ \E ok \in BOOLEAN :
          /\ save_log' = Append(save_log, SaveCall(session, Len(frames), ok))
          /\ IF ok
             THEN /\ stored_sessions' = SaveSession(stored_sessions, session)
                  /\ stream_pc' = "streaming"
             ELSE /\ stream_pc' = "raised"
                  /\ UNCHANGED stored_sessions
    /\ UNCHANGED <<session, events_collected, result_text, total_tools,
                   exec_time, frames>>
    /\ UNCHANGED <<plan, unit_vars, engine_vars, global_vars, worker_vars, clock,
                   history_vars>>

\* mutant of StreamFinish: the captured timing and tool count are not
\* copied into the session
StreamFinish_KeepsDefaults ==
    /\ stream_pc = "streaming"
    /\ ec_pc = "ended"
    /\ session' = [session EXCEPT !.events = events_collected,
                                  !.result = result_text,
                                  !.status = "complete"]
    /\ \E ok \in BOOLEAN :
          /\ save_log' = Append(save_log, SaveCall(session', Len(frames), ok))
          /\ IF ok
             THEN /\ stored_sessions' = SaveSession(stored_sessions, session')
                  /\ frames' = Append(frames, DoneFrame)
                  /\ stream_pc' = "done"
             ELSE /\ stream_pc' = "raised"
                  /\ UNCHANGED <<stored_sessions, frames>>
    /\ UNCHANGED <<events_collected, result_text, total_tools, exec_time>>
    /\ UNCHANGED <<plan, unit_vars, engine_vars, global_vars, worker_vars, clock,
                   history_vars>>

\* the loop over execute_crew has ended: fill the session, save it in the
\* finally block, then yield the sentinel
StreamFinish ==
    /\ stream_pc = "streaming"
    /\ ec_pc = "ended"
    /\ session' = [session EXCEPT !.events = events_collected,
                                  !.result = result_text,
                                  !.execution_time_seconds = exec_time,
                                  !.total_tokens = total_tools,
                                  !.status = "complete"]
    /\ \E ok \in BOOLEAN :
          /\ save_log' = Append(save_log, SaveCall(session', Len(frames), ok))
          /\ IF ok
             THEN /\ stored_sessions' = SaveSession(stored_sessions, session')
                  /\ frames' = Append(frames, DoneFrame)
                  /\ stream_pc' = "done"
             ELSE /\ stream_pc' = "raised"
                  /\ UNCHANGED <<stored_sessions, frames>>
    /\ UNCHANGED <<events_collected, result_text, total_tools, exec_time>>
    /\ UNCHANGED <<plan, unit_vars, engine_vars, global_vars, worker_vars, clock,
                   history_vars>>

\* str(e) of an exception that execute_crew lets through
EscapedError == "engine_failure"

\* lines 584-591: an exception left execute_crew; the session is marked, an
\* error frame is sent, the finally block saves, then the sentinel
StreamExcept ==
    /\ stream_pc = "streaming"
    /\ ec_pc = "escaped"
    /\ session' = [session EXCEPT !.status = "error", !.result = EscapedError]
    /\ \E ok \in BOOLEAN :
          /\ save_log' = Append(save_log,
                                SaveCall(session', Len(frames) + 1, ok))
          /\ IF ok
             THEN /\ stored_sessions' = SaveSession(stored_sessions, session')
                  /\ frames' = frames \o <<ErrorFrame(EscapedError), DoneFrame>>
                  /\ stream_pc' = "done"
             ELSE /\ frames' = Append(frames, ErrorFrame(EscapedError))
                  /\ stream_pc' = "raised"
                  /\ UNCHANGED stored_sessions
    /\ UNCHANGED <<events_collected, result_text, total_tools, exec_time>>
    /\ UNCHANGED <<plan, unit_vars, engine_vars, global_vars, worker_vars,
                   clock, history_vars>>

\* ------------------------------------------------------------- the engine
AgentStartEvent(name) == ExecutionEvent("agent_start", name, "", clock, NoMeta)

AgentCompleteEvent(name) ==
    ExecutionEvent("agent_complete", name, "", clock, NoMeta)

\* mutant of HandoffEvent: the handoff is attributed to the arriving agent
HandoffEvent_NamesArrivingAgent(prev_name, new_name) ==
    ExecutionEvent("handoff", new_name, "", clock,
                   [NoMeta EXCEPT !.from = prev_name, !.to = new_name])

HandoffEvent(prev_name, new_name) ==
    ExecutionEvent("handoff", prev_name, "", clock,
                   [NoMeta EXCEPT !.from = prev_name, !.to = new_name])

\* mutant of CrewCompleteEvent: agents_used counts the agents that became
\* active
CrewCompleteEvent_CountsActive(result_str) ==
    ExecutionEvent("crew_complete", "", result_str, clock,
                   [NoMeta EXCEPT !.execution_time_seconds = elapsed,
                                  !.total_tool_calls = total_tool_calls,
                                  !.agents_used =
                                      Cardinality(agent_start_times)])

CrewCompleteEvent(result_str) ==
    ExecutionEvent("crew_complete", "", result_str, clock,
                   [NoMeta EXCEPT !.execution_time_seconds = elapsed,
                                  !.total_tool_calls = total_tool_calls,
                                  !.agents_used = Len(plan.agents)])

ErrorEvent(msg) == ExecutionEvent("error", "", msg, clock, NoMeta)

\* if _current_agent_name and _current_agent_name in _agent_start_times
ActiveAgentKnown ==
    Truthy(current_agent_name) /\ current_agent_name \in agent_start_times

\* result_task.done()
WorkerDone == worker_pc \in {"returned", "raised"}

\* lines 396-406 stand before the try block: an exception raised there
\* (the interpreter out of memory, say) is caught by neither handler of
\* execute_crew and leaves the generator
ExecuteCrewRaises ==
    /\ stream_pc = "streaming"
    /\ ec_pc = "not_started"
    /\ event_queue' = [open |-> TRUE, items |-> <<>>]
    /\ notes_store' = NoNotes
    /\ current_agent_name' = None
    /\ agent_start_times' = {}
    /\ ec_pc' = "escaped"
    /\ UNCHANGED <<crewai_role_to_name, start_time, elapsed, total_tool_calls,
                   exc, yielded>>
    /\ UNCHANGED <<plan, unit_vars, recorder_vars, worker_vars, clock,
                   history_vars>>

\* lines 396-406: the process-wide run state is replaced
ExecuteCrewStart ==
    /\ stream_pc = "streaming"
    /\ ec_pc = "not_started"
    /\ event_queue' = [open |-> TRUE, items |-> <<>>]
    /\ notes_store' = NoNotes
    /\ current_agent_name' = None
    /\ agent_start_times' = {}
    /\ start_time' = clock
    /\ total_tool_calls' = 0
    /\ ec_pc' = "construct"
    /\ UNCHANGED <<crewai_role_to_name, elapsed, exc, yielded>>
    /\ UNCHANGED <<plan, unit_vars, recorder_vars, worker_vars, clock, history_vars>>

\* lines 409-490: get_llm, Agent(...), Task(...), Crew(...); any of them may
\* raise, and crewai_agents[""] raises KeyError for a plan without agents
Construct ==
    /\ stream_pc = "streaming"
    /\ ec_pc = "construct"
    /\ \E failure \in {"", "llm_error"} :
          IF TaskAgentUnresolved(plan) \/ failure # ""
          THEN /\ exc' = IF failure # "" THEN failure ELSE "key_error"
               /\ ec_pc' = "except"
               /\ UNCHANGED crewai_role_to_name
          ELSE /\ crewai_role_to_name' = RoleToName(plan)
               /\ ec_pc' = "first_agent"
               /\ UNCHANGED exc
    /\ UNCHANGED <<start_time, elapsed, total_tool_calls, yielded>>
    /\ UNCHANGED <<plan, unit_vars, recorder_vars, global_vars, worker_vars, clock,
                   history_vars>>

\* mutant of FirstAgentStart: the agent listed first is announced
FirstAgentStart_ListOrder ==
    /\ stream_pc = "streaming"
    /\ ec_pc = "first_agent"
    /\ IF plan.agents # <<>>
       THEN LET first_agent == plan.agents[1]
            IN /\ current_agent_name' = first_agent.name
               /\ agent_start_times' = agent_start_times \cup {first_agent.name}
               /\ Yield(AgentStartEvent(first_agent.name))
               /\ clock' = clock + 1
       ELSE /\ UNCHANGED <<current_agent_name, agent_start_times, clock>>
            /\ UNCHANGED <<yielded, recorder_vars>>
    /\ ec_pc' = "kickoff"
    /\ UNCHANGED <<crewai_role_to_name, start_time, elapsed, total_tool_calls, exc>>
    /\ UNCHANGED <<plan, unit_vars, event_queue, notes_store, worker_vars,
                   history_vars>>

\* lines 492-500: the agent of lowest order is announced by the engine itself
FirstAgentStart ==
    /\ stream_pc = "streaming"
    /\ ec_pc = "first_agent"
    /\ IF plan.agents # <<>>
       THEN LET first_agent == SortedByOrder(plan.agents)[1]
            IN /\ current_agent_name' = first_agent.name
               /\ agent_start_times' = agent_start_times \cup {first_agent.name}
               /\ Yield(AgentStartEvent(first_agent.name))
               /\ clock' = clock + 1
       ELSE /\ UNCHANGED <<current_agent_name, agent_start_times, clock>>
            /\ UNCHANGED <<yielded, recorder_vars>>
    /\ ec_pc' = "kickoff"
    /\ UNCHANGED <<crewai_role_to_name, start_time, elapsed, total_tool_calls, exc>>
    /\ UNCHANGED <<plan, unit_vars, event_queue, notes_store, worker_vars,
                   history_vars>>

\* line 502: asyncio.ensure_future(asyncio.to_thread(crew.kickoff))
Kickoff ==
    /\ stream_pc = "streaming"
    /\ ec_pc = "kickoff"
    /\ worker_pc' = "running"
    /\ ec_pc' = "poll"
    /\ UNCHANGED <<crewai_role_to_name, start_time, elapsed, total_tool_calls, exc, yielded>>
    /\ UNCHANGED <<worker_ops, worker_tool, worker_tool_out, worker_args, worker_new_name,
                   worker_result, same_agent_steps, agent_changes>>
    /\ UNCHANGED <<plan, unit_vars, recorder_vars, global_vars, clock,
                   history_vars>>

\* lines 507-510: an event arrived within the timeout
PollGet ==
    /\ stream_pc = "streaming"
    /\ ec_pc = "poll"
    /\ event_queue.items # <<>>
    /\ LET event == QueueGet(event_queue)
       IN /\ total_tool_calls' = CountToolCall(total_tool_calls, event)
          /\ Yield(event)
    /\ event_queue' = QueueRest(event_queue)
    /\ UNCHANGED <<ec_pc, crewai_role_to_name, start_time, elapsed, exc>>
    /\ UNCHANGED <<plan, unit_vars, current_agent_name, agent_start_times,
                   notes_store, worker_vars,
                   clock, history_vars>>

\* mutant of PollTimeout: the first timeout ends the loop
PollTimeout_GivesUp ==
    /\ stream_pc = "streaming"
    /\ ec_pc = "poll"
    /\ ec_pc' = "drain"
    /\ UNCHANGED <<crewai_role_to_name, start_time, elapsed, total_tool_calls, exc, yielded>>
    /\ UNCHANGED <<plan, unit_vars, recorder_vars, global_vars, worker_vars, clock,
                   history_vars>>

\* lines 511-512: the 0.5 s timeout fired.  The worker thread publishes
\* without synchronisation, so the timeout may fire although an event has
\* just been put; the loop repeats unless the worker is done.
PollTimeout ==
    /\ stream_pc = "streaming"
    /\ ec_pc = "poll"
    /\ ec_pc' = IF WorkerDone THEN "drain" ELSE "poll"
    /\ UNCHANGED <<crewai_role_to_name, start_time, elapsed, total_tool_calls, exc, yielded>>
    /\ UNCHANGED <<plan, unit_vars, recorder_vars, global_vars, worker_vars, clock,
                   history_vars>>

\* mutant of DrainGet: the drain loop forgets to count tool calls
DrainGet_NoCount ==
    /\ stream_pc = "streaming"
    /\ ec_pc = "drain"
    /\ event_queue.items # <<>>
    /\ LET event == QueueGet(event_queue)
       IN /\ Yield(event)
          /\ drained' = Append(drained, event)
    /\ event_queue' = QueueRest(event_queue)
    /\ UNCHANGED <<ec_pc, crewai_role_to_name, start_time, elapsed, total_tool_calls, exc>>
    /\ UNCHANGED <<plan, unit_vars, current_agent_name, agent_start_times,
                   notes_store, worker_vars,
                   clock, accepted, n_emitted, n_dropped>>

\* lines 513-517: one round of the non-blocking drain
DrainGet ==
    /\ stream_pc = "streaming"
    /\ ec_pc = "drain"
    /\ event_queue.items # <<>>
    /\ LET event == QueueGet(event_queue)
       IN /\ total_tool_calls' = CountToolCall(total_tool_calls, event)
          /\ Yield(event)
          /\ drained' = Append(drained, event)
    /\ event_queue' = QueueRest(event_queue)
    /\ UNCHANGED <<ec_pc, crewai_role_to_name, start_time, elapsed, exc>>
    /\ UNCHANGED <<plan, unit_vars, current_agent_name, agent_start_times,
                   notes_store, worker_vars,
                   clock, accepted, n_emitted, n_dropped>>

\* mutant of DrainDone: done = True without draining the queue
DrainDone_WithoutDrain ==
    /\ stream_pc = "streaming"
    /\ ec_pc = "drain"
    /\ ec_pc' = "await_result"
    /\ UNCHANGED <<crewai_role_to_name, start_time, elapsed, total_tool_calls, exc, yielded>>
    /\ UNCHANGED <<plan, unit_vars, recorder_vars, global_vars, worker_vars, clock,
                   history_vars>>

\* line 518: the queue is empty, done = True
DrainDone ==
    /\ stream_pc = "streaming"
    /\ ec_pc = "drain"
    /\ event_queue.items = <<>>
    /\ ec_pc' = "await_result"
    /\ UNCHANGED <<crewai_role_to_name, start_time, elapsed, total_tool_calls, exc, yielded>>
    /\ UNCHANGED <<plan, unit_vars, recorder_vars, global_vars, worker_vars, clock,
                   history_vars>>

\* mutant of AwaitResult: the worker's exception is not re-raised
AwaitResult_IgnoresFailure ==
    /\ stream_pc = "streaming"
    /\ ec_pc = "await_result"
    /\ elapsed' = clock - start_time
    /\ ec_pc' = "final_agent_complete"
    /\ UNCHANGED <<crewai_role_to_name, start_time, total_tool_calls, exc,
                   yielded>>
    /\ UNCHANGED <<plan, unit_vars, recorder_vars, global_vars, worker_vars, clock,
                   history_vars>>

\* line 520: result = await result_task re-raises the worker's exception
AwaitResult ==
    /\ stream_pc = "streaming"
    /\ ec_pc = "await_result"
    /\ IF worker_pc = "raised"
       THEN /\ exc' = "worker_error"
            /\ ec_pc' = "except"
            /\ UNCHANGED elapsed
       ELSE /\ elapsed' = clock - start_time
            /\ ec_pc' = "final_agent_complete"
            /\ UNCHANGED exc
    /\ UNCHANGED <<crewai_role_to_name, start_time, total_tool_calls, yielded>>
    /\ UNCHANGED <<plan, unit_vars, recorder_vars, global_vars, worker_vars, clock,
                   history_vars>>

\* mutant of FinalAgentComplete: the closing agent_complete is published
\* only for an agent a step notification made active
FinalAgentComplete_OnlyAfterChange ==
    /\ stream_pc = "streaming"
    /\ ec_pc = "final_agent_complete"
    /\ IF ActiveAgentKnown /\ agent_changes > 0
       THEN /\ Yield(AgentCompleteEvent(current_agent_name))
            /\ clock' = clock + 1
       ELSE UNCHANGED <<yielded, recorder_vars, clock>>
    /\ ec_pc' = "crew_complete"
    /\ UNCHANGED <<crewai_role_to_name, start_time, elapsed, total_tool_calls, exc>>
    /\ UNCHANGED <<plan, unit_vars, global_vars, worker_vars, history_vars>>

\* lines 524-531: the closing agent_complete of the agent last active
FinalAgentComplete ==
    /\ stream_pc = "streaming"
    /\ ec_pc = "final_agent_complete"
    /\ IF ActiveAgentKnown
       THEN /\ Yield(AgentCompleteEvent(current_agent_name))
            /\ clock' = clock + 1
       ELSE UNCHANGED <<yielded, recorder_vars, clock>>
    /\ ec_pc' = "crew_complete"
    /\ UNCHANGED <<crewai_role_to_name, start_time, elapsed, total_tool_calls, exc>>
    /\ UNCHANGED <<plan, unit_vars, global_vars, worker_vars, history_vars>>

\* lines 533-541
CrewComplete ==
    /\ stream_pc = "streaming"
    /\ ec_pc = "crew_complete"
    /\ Yield(CrewCompleteEvent(worker_result))
    /\ clock' = clock + 1
    /\ ec_pc' = "finally"
    /\ UNCHANGED <<crewai_role_to_name, start_time, elapsed, total_tool_calls, exc>>
    /\ UNCHANGED <<plan, unit_vars, global_vars, worker_vars, history_vars>>

\* mutant of Except: after the error event the engine carries on to the
\* completion events
Except_FallsThrough ==
    /\ stream_pc = "streaming"
    /\ ec_pc = "except"
    /\ Yield(ErrorEvent(exc))
    /\ clock' = clock + 1
    /\ ec_pc' = "crew_complete"
    /\ UNCHANGED <<crewai_role_to_name, start_time, elapsed, total_tool_calls, exc>>
    /\ UNCHANGED <<plan, unit_vars, global_vars, worker_vars, history_vars>>

\* lines 543-548: except Exception as e
Except ==
    /\ stream_pc = "streaming"
    /\ ec_pc = "except"
    /\ Yield(ErrorEvent(exc))
    /\ clock' = clock + 1
    /\ ec_pc' = "finally"
    /\ UNCHANGED <<crewai_role_to_name, start_time, elapsed, total_tool_calls, exc>>
    /\ UNCHANGED <<plan, unit_vars, global_vars, worker_vars, history_vars>>

\* mutant of Finally: the note store is left as the run filled it
Finally_KeepsNotes ==
    /\ stream_pc = "streaming"
    /\ ec_pc = "finally"
    /\ event_queue' = [open |-> FALSE, items |-> <<>>]
    /\ current_agent_name' = None
    /\ agent_start_times' = {}
    /\ ec_pc' = "ended"
    /\ UNCHANGED <<crewai_role_to_name, start_time, elapsed, total_tool_calls,
                   exc, yielded, notes_store>>
    /\ UNCHANGED <<plan, unit_vars, recorder_vars, worker_vars, clock,
                   history_vars>>

\* lines 549-553: finally
Finally ==
    /\ stream_pc = "streaming"
    /\ ec_pc = "finally"
    /\ event_queue' = [open |-> FALSE, items |-> <<>>]
    /\ notes_store' = NoNotes
    /\ current_agent_name' = None
    /\ agent_start_times' = {}
    /\ ec_pc' = "ended"
    /\ UNCHANGED <<crewai_role_to_name, start_time, elapsed, total_tool_calls, exc, yielded>>
    /\ UNCHANGED <<plan, unit_vars, recorder_vars, worker_vars, clock, history_vars>>

\* ------------------------------------------------------------- the worker
\* The reasoning engine is a black box: in any order it reports steps,
\* invokes tools and completes tasks, then returns or raises.
CanOperate == worker_pc = "running" /\ worker_ops < MaxWorkerOps

ToolCallEvent(tool, args) ==
    ExecutionEvent("tool_call", "", "", clock,
                   [NoMeta EXCEPT !.tool = tool, !.action = args.action,
                                  !.key = args.key])

\* mutant of ToolResultEvent: every tool reports itself as web_search
ToolResultEvent_WrongTool(tool) ==
    ExecutionEvent("tool_result", "", "", clock,
                   [NoMeta EXCEPT !.tool = "web_search"])

ToolResultEvent(tool) ==
    ExecutionEvent("tool_result", "", "", clock, [NoMeta EXCEPT !.tool = tool])

\* roles a step notification may carry: a declared one, an undeclared one,
\* or none at all
StepRoles == DOMAIN crewai_role_to_name \cup {"unknown_role", None}

\* the notification names a declared role whose agent is the active one
ReportsActiveAgent(agent_role) ==
    /\ agent_role # None
    /\ agent_role \in DOMAIN crewai_role_to_name
    /\ crewai_role_to_name[agent_role] = current_agent_name

\* the notification names a declared role whose agent is not the active one
DetectsChange(agent_role) ==
    /\ agent_role # None
    /\ agent_role \in DOMAIN crewai_role_to_name
    /\ crewai_role_to_name[agent_role] # current_agent_name

\* mutant of StepCallback: the comparison with the active agent is left out
StepCallback_AnyDeclaredRole(agent_role) ==
    /\ CanOperate
    /\ worker_ops' = worker_ops + 1
    /\ same_agent_steps' = IF ReportsActiveAgent(agent_role)
                           THEN same_agent_steps + 1 ELSE same_agent_steps
    /\ agent_changes' = IF agent_role # None
                           /\ agent_role \in DOMAIN crewai_role_to_name
                        THEN agent_changes + 1 ELSE agent_changes
    /\ IF agent_role # None /\ agent_role \in DOMAIN crewai_role_to_name
       THEN LET new_name == crewai_role_to_name[agent_role]
            IN IF ActiveAgentKnown
               THEN /\ Emit(AgentCompleteEvent(current_agent_name))
                    /\ worker_pc' = "step_handoff"
                    /\ worker_new_name' = new_name
                    /\ UNCHANGED <<current_agent_name, agent_start_times>>
               ELSE /\ current_agent_name' = new_name
                    /\ agent_start_times' = agent_start_times \cup {new_name}
                    /\ Emit(AgentStartEvent(new_name))
                    /\ UNCHANGED <<worker_pc, worker_new_name>>
       ELSE /\ UNCHANGED <<event_queue, current_agent_name, agent_start_times,
                           worker_pc, worker_new_name, clock, history_vars>>
    /\ UNCHANGED <<worker_tool, worker_tool_out, worker_args, worker_result,
                   notes_store>>
    /\ UNCHANGED <<plan, unit_vars, recorder_vars, engine_vars>>

\* step_callback, lines 445-465 and 473-479: up to the first publication
StepCallback(agent_role) ==
    /\ CanOperate
    /\ worker_ops' = worker_ops + 1
    /\ same_agent_steps' = IF ReportsActiveAgent(agent_role)
                           THEN same_agent_steps + 1 ELSE same_agent_steps
    /\ agent_changes' = IF DetectsChange(agent_role)
                        THEN agent_changes + 1 ELSE agent_changes
    /\ IF agent_role # None /\ agent_role \in DOMAIN crewai_role_to_name
          /\ crewai_role_to_name[agent_role] # current_agent_name
       THEN LET new_name == crewai_role_to_name[agent_role]
            IN IF ActiveAgentKnown
               THEN /\ Emit(AgentCompleteEvent(current_agent_name))
                    /\ worker_pc' = "step_handoff"
                    /\ worker_new_name' = new_name
                    /\ UNCHANGED <<current_agent_name, agent_start_times>>
               ELSE /\ current_agent_name' = new_name
                    /\ agent_start_times' = agent_start_times \cup {new_name}
                    /\ Emit(AgentStartEvent(new_name))
                    /\ UNCHANGED <<worker_pc, worker_new_name>>
       ELSE /\ UNCHANGED <<event_queue, current_agent_name, agent_start_times,
                           worker_pc, worker_new_name, clock, history_vars>>
    /\ UNCHANGED <<worker_tool, worker_tool_out, worker_args, worker_result,
                   notes_store>>
    /\ UNCHANGED <<plan, unit_vars, recorder_vars, engine_vars>>

\* mutant of StepHandoff: the handoff is not published
StepHandoff_Skipped ==
    /\ worker_pc = "step_handoff"
    /\ worker_pc' = "step_start"
    /\ UNCHANGED <<event_queue, clock, history_vars>>
    /\ UNCHANGED <<worker_ops, worker_tool, worker_tool_out, worker_args, worker_new_name,
                   worker_result, same_agent_steps, agent_changes>>
    /\ UNCHANGED <<current_agent_name, agent_start_times, notes_store>>
    /\ UNCHANGED <<plan, unit_vars, recorder_vars, engine_vars>>

\* step_callback, lines 466-472: the handoff publication
StepHandoff ==
    /\ worker_pc = "step_handoff"
    /\ Emit(HandoffEvent(current_agent_name, worker_new_name))
    /\ worker_pc' = "step_start"
    /\ UNCHANGED <<worker_ops, worker_tool, worker_tool_out, worker_args, worker_new_name,
                   worker_result, same_agent_steps, agent_changes>>
    /\ UNCHANGED <<current_agent_name, agent_start_times, notes_store>>
    /\ UNCHANGED <<plan, unit_vars, recorder_vars, engine_vars>>

\* mutant of StepAgentStart: agent_start is published with the stale name
StepAgentStart_StaleName ==
    /\ worker_pc = "step_start"
    /\ current_agent_name' = worker_new_name
    /\ agent_start_times' = agent_start_times \cup {worker_new_name}
    /\ Emit(AgentStartEvent(current_agent_name))
    /\ worker_pc' = "running"
    /\ worker_new_name' = None
    /\ UNCHANGED <<worker_ops, worker_tool, worker_tool_out, worker_args, worker_result,
                   same_agent_steps, agent_changes,
                   notes_store>>
    /\ UNCHANGED <<plan, unit_vars, recorder_vars, engine_vars>>

\* step_callback, lines 473-479: the new agent becomes the active one
StepAgentStart ==
    /\ worker_pc = "step_start"
    /\ current_agent_name' = worker_new_name
    /\ agent_start_times' = agent_start_times \cup {worker_new_name}
    /\ Emit(AgentStartEvent(worker_new_name))
    /\ worker_pc' = "running"
    /\ worker_new_name' = None
    /\ UNCHANGED <<worker_ops, worker_tool, worker_tool_out, worker_args, worker_result,
                   same_agent_steps, agent_changes,
                   notes_store>>
    /\ UNCHANGED <<plan, unit_vars, recorder_vars, engine_vars>>

\* <Tool>._run, first publication: tool_call before any work
ToolRunCall(tool, args) ==
    /\ CanOperate
    /\ worker_ops' = worker_ops + 1
    /\ Emit(ToolCallEvent(tool, args))
    /\ worker_pc' = "in_tool"
    /\ worker_tool' = tool
    /\ worker_args' = args
    /\ UNCHANGED <<worker_tool_out, worker_new_name, worker_result,
                   same_agent_steps, agent_changes>>
    /\ UNCHANGED <<current_agent_name, agent_start_times, notes_store>>
    /\ UNCHANGED <<plan, unit_vars, recorder_vars, engine_vars>>

\* the effect of a tool's work on the run state: note_taker's save writes
\* the note store, nothing else writes anything
NotesAfter(notes, tool, args) ==
    IF tool = "note_taker" /\ args.action = "save"
    THEN NotePut(notes, args.key, args.content)
    ELSE notes

\* the prefix of the string a tool builds from an exception caught in its
\* work, lines 120-121, 154-155 and 226-227; note_taker catches nothing
\* because its work cannot raise
ErrorMarkers ==
    [web_search |-> "Search error: ",
     calculator |-> "Calculation error: ",
     text_analyzer |-> "Analysis error: "]

\* what the work of a tool can leave in its result string: "" stands for
\* a result built without an exception, a marker for one built from an
\* exception
ToolOuts(tool) ==
    IF tool \in DOMAIN ErrorMarkers THEN {"", ErrorMarkers[tool]} ELSE {""}

\* mutant of ToolRunResult: the exception of the work is not caught and
\* ends crew.kickoff
ToolRunResult_Raises(out) ==
    /\ worker_pc = "in_tool"
    /\ notes_store' = NotesAfter(notes_store, worker_tool, worker_args)
    /\ IF out = ""
       THEN /\ Emit([ToolResultEvent(worker_tool) EXCEPT !.content = out])
            /\ worker_pc' = "running"
       ELSE /\ worker_pc' = "raised"
            /\ UNCHANGED <<event_queue, clock, history_vars>>
    /\ worker_tool_out' = out
    /\ worker_tool' = ""
    /\ worker_args' = NoArgs
    /\ UNCHANGED <<worker_ops, worker_new_name, worker_result,
                   same_agent_steps, agent_changes>>
    /\ UNCHANGED <<current_agent_name, agent_start_times>>
    /\ UNCHANGED <<plan, unit_vars, recorder_vars, engine_vars>>

\* <Tool>._run, the work and the second publication: tool_result carrying
\* the result string, then return of that string to the caller
ToolRunResult(out) ==
    /\ worker_pc = "in_tool"
    /\ notes_store' = NotesAfter(notes_store, worker_tool, worker_args)
    /\ Emit([ToolResultEvent(worker_tool) EXCEPT !.content = out])
    /\ worker_tool_out' = out
    /\ worker_pc' = "running"
    /\ worker_tool' = ""
    /\ worker_args' = NoArgs
    /\ UNCHANGED <<worker_ops, worker_new_name, worker_result,
                   same_agent_steps, agent_changes>>
    /\ UNCHANGED <<current_agent_name, agent_start_times>>
    /\ UNCHANGED <<plan, unit_vars, recorder_vars, engine_vars>>

\* _task_callback, lines 381-391
TaskCallback ==
    /\ CanOperate
    /\ worker_ops' = worker_ops + 1
    /\ IF ActiveAgentKnown
       THEN Emit(AgentCompleteEvent(current_agent_name))
       ELSE UNCHANGED <<event_queue, clock, history_vars>>
    /\ UNCHANGED <<worker_pc, worker_tool, worker_tool_out, worker_args, worker_new_name,
                   worker_result, same_agent_steps, agent_changes>>
    /\ UNCHANGED <<current_agent_name, agent_start_times, notes_store>>
    /\ UNCHANGED <<plan, unit_vars, recorder_vars, engine_vars>>

\* what str(result) of a finished crew can be
CrewResults == {"crew_result", ""}

\* crew.kickoff returns its result
WorkerReturn ==
    /\ worker_pc = "running"
    /\ worker_pc' = "returned"
    /\ worker_result' \in CrewResults
    /\ UNCHANGED <<worker_ops, worker_tool, worker_tool_out, worker_args, worker_new_name,
                   same_agent_steps, agent_changes>>
    /\ UNCHANGED <<plan, unit_vars, recorder_vars, engine_vars, global_vars,
                   clock, history_vars>>

\* crew.kickoff raises
WorkerRaise ==
    /\ worker_pc = "running"
    /\ worker_pc' = "raised"
    /\ UNCHANGED <<worker_ops, worker_tool, worker_tool_out, worker_args, worker_new_name,
                   worker_result, same_agent_steps, agent_changes>>
    /\ UNCHANGED <<plan, unit_vars, recorder_vars, engine_vars, global_vars,
                   clock, history_vars>>

\* ------------------------------------------------------- the specification
WorkerNext ==
    \/ \E agent_role \in StepRoles : StepCallback(agent_role)
    \/ StepHandoff
    \/ StepAgentStart
    \/ \E tool \in RegisteredTools(plan) :
          \E args \in ArgsOf(tool) : ToolRunCall(tool, args)
    \/ \E out \in ToolOuts(worker_tool) : ToolRunResult(out)
    \/ TaskCallback
    \/ WorkerReturn
    \/ WorkerRaise

EngineNext ==
    \/ ExecuteCrewRaises
    \/ ExecuteCrewStart
    \/ Construct
    \/ FirstAgentStart
    \/ Kickoff
    \/ PollGet
    \/ PollTimeout
    \/ DrainGet
    \/ DrainDone
    \/ AwaitResult
    \/ FinalAgentComplete
    \/ CrewComplete
    \/ Except
    \/ Finally

RecorderNext ==
    \/ StreamStart
    \/ StreamFinish
    \/ StreamExcept

Next == WorkerNext \/ EngineNext \/ RecorderNext

Spec == Init /\ [][Next]_vars

\* the worker thread is scheduled by the operating system whatever the
\* consumer does: its steps are taken under weak fairness
WorkerFairSpec == Spec /\ WF_vars(WorkerNext)

\* a consumer that keeps pulling: the generators of execute_crew and of
\* stream_workshop_events are resumed whenever they can take a step
ConsumerFairSpec == Spec /\ WF_vars(EngineNext) /\ WF_vars(RecorderNext)

\* ------------------------------------------------------ the store, on its own
\* Concurrent calls of stream_workshop_events share workshop_sessions.json.
\* Each creates its session (a fresh id, status running) and saves it, and
\* later saves it once more with its final status; the calls interleave in
\* any order.  Ids and creation times are numbered in order of creation.
NewSession(n) ==
    [WorkshopSession(n, "running", <<>>, "", 0) EXCEPT !.created_at = n]

run_frame == <<plan, session, events_collected, result_text, total_tools,
               exec_time, frames, stream_pc, save_log, engine_vars,
               global_vars, worker_vars, clock, history_vars>>

\* stream_workshop_events, lines 558-563, of one more call
CreateSession ==
    LET n == Cardinality(DOMAIN saved_versions) + 1
    IN /\ n <= MaxSessionsCreated
       /\ stored_sessions' = SaveSession(stored_sessions, NewSession(n))
       /\ saved_versions' = [id \in DOMAIN saved_versions \cup {n} |->
                                IF id = n THEN NewSession(n)
                                ELSE saved_versions[id]]
       /\ UNCHANGED <<run_frame, tool_run, aux_vars>>

\* stream_workshop_events, lines 579-589, of a call whose session is running
FinishSession(id, status) ==
    /\ id \in DOMAIN saved_versions
    /\ saved_versions[id].status = "running"
    /\ LET final == [saved_versions[id] EXCEPT !.status = status]
       IN /\ stored_sessions' = SaveSession(stored_sessions, final)
          /\ saved_versions' = [saved_versions EXCEPT ![id] = final]
    /\ UNCHANGED <<run_frame, tool_run, aux_vars>>

StoreInit ==
    /\ plan = PlanEmpty
    /\ RunInit
    /\ saved_versions = NoVersions
    /\ tool_run = UnusedToolRun
    /\ AuxUnused

StoreNext ==
    \/ CreateSession
    \/ \E id \in 1..MaxSessionsCreated :
          \E status \in {"complete", "error"} : FinishSession(id, status)

StoreSpec == StoreInit /\ [][StoreNext]_vars

\* ------------------------------------------------- one tool invocation, on its own
\* Texts are sequences of characters; a fixed phrase of the source counts as
\* one character.
Chars == <<"a", "b", "c", "d", "e", "f", "g">>

Text(n) == [i \in 1..n |-> Chars[(i % 7) + 1]]

\* s[:n]
Prefix(s, n) == SubSeq(s, 1, IF Len(s) < n THEN Len(s) ELSE n)

\* lengths of the texts a tool produces or stores
TextLengths == {0, 1, 299, 300, 301, 499, 500, 501}

\* lengths of the texts a tool is given
InputLengths == {0, 100, 101}

\* the arguments the reasoning engine may pass
TextArgsOf(tool) ==
    IF tool = "note_taker"
    THEN {ToolArgs("save", k, Text(n)) : k \in {"k1", "k2"}, n \in TextLengths}
         \cup {ToolArgs(a, k, <<>>) : a \in {"retrieve", "list"},
                                      k \in {"k1", "k2"}}
    ELSE {ToolArgs("", "", Text(n)) : n \in InputLengths}

\* content of the tool_call event
Description(tool, args) ==
    CASE tool = "web_search" -> <<"Searching: ">> \o args.content
      [] tool = "calculator" -> <<"Calculating: ">> \o args.content
      [] tool = "note_taker" ->
             <<"Note: ", args.action, " '", args.key, "'">>
      [] tool = "text_analyzer" ->
             <<"Analyzing text: ">> \o Prefix(args.content, DescriptionLimit)
                 \o <<"...">>

\* what the work of a tool can produce for the given arguments: the
\* environment (search service, evaluator, language model) decides
OutputsOf(tool, args, notes) ==
    CASE tool = "web_search" ->
             {Text(n) : n \in TextLengths}
             \cup {<<"No search results found for: ">> \o args.content}
             \cup {<<"Search error: ">> \o Text(n) : n \in TextLengths}
      [] tool = "calculator" ->
             {Text(n) : n \in TextLengths \ {0}}
             \cup {<<"Calculation error: ">> \o Text(n) : n \in TextLengths}
      [] tool = "note_taker" ->
             IF args.action = "save"
             THEN {<<"Saved note '", args.key, "'">>}
             ELSE {NoteGet(notes, args.key,
                           <<"No note found for '", args.key, "'">>)}
      [] tool = "text_analyzer" ->
             {Text(n) : n \in TextLengths}
             \cup {<<"Analysis error: ">> \o Text(n) : n \in TextLengths}

\* content of the tool_result event
Preview(tool, out) ==
    CASE tool = "web_search" -> Prefix(out, PreviewLimit)
      [] tool = "calculator" -> out
      [] tool = "note_taker" -> Prefix(out, NotePreviewLimit)
      [] tool = "text_analyzer" -> Prefix(out, PreviewLimit)

ToolRunAtStart(tool, notes) ==
    [pc |-> "ready", tool |-> tool, args |-> ToolArgs("", "", <<>>),
     notes_before |-> notes,
     notes |-> notes, out |-> <<>>, published |-> <<>>, returned |-> <<>>]

\* the note stores an invocation may find
NoteStoresAtStart == {NoNotes, NotePut(NoNotes, "k1", Text(301))}

unit_frame == <<run_frame, stored_sessions, saved_versions, aux_vars>>

\* _run is entered: the tool_call event is published first
ToolPublishCall(args) ==
    /\ tool_run.pc = "ready"
    /\ tool_run' = [tool_run EXCEPT
           !.pc = "called",
           !.args = args,
           !.published = Append(@,
               ExecutionEvent("tool_call", "", Description(tool_run.tool, args),
                              Len(@) + 1,
                              [NoMeta EXCEPT !.tool = tool_run.tool,
                                             !.action = args.action,
                                             !.key = args.key]))]
    /\ UNCHANGED unit_frame

\* the work between the two publications; a failure inside it becomes the
\* output
ToolWork(out) ==
    /\ tool_run.pc = "called"
    /\ out \in OutputsOf(tool_run.tool, tool_run.args, tool_run.notes)
    /\ tool_run' = [tool_run EXCEPT
           !.pc = "worked",
           !.out = out,
           !.notes = NotesAfter(@, tool_run.tool, tool_run.args)]
    /\ UNCHANGED unit_frame

\* the tool_result event with the preview of the output
ToolPublishResult ==
    /\ tool_run.pc = "worked"
    /\ tool_run' = [tool_run EXCEPT
           !.pc = "resulted",
           !.published = Append(@,
               ExecutionEvent("tool_result", "",
                              Preview(tool_run.tool, tool_run.out),
                              Len(@) + 1,
                              [NoMeta EXCEPT !.tool = tool_run.tool]))]
    /\ UNCHANGED unit_frame

\* mutant of ToolReturn: the preview is what the caller gets
ToolReturn_Preview ==
    /\ tool_run.pc = "resulted"
    /\ tool_run' = [tool_run EXCEPT
           !.pc = "returned",
           !.returned = Prefix(tool_run.out, NotePreviewLimit)]
    /\ UNCHANGED unit_frame

\* return out / return result
ToolReturn ==
    /\ tool_run.pc = "resulted"
    /\ tool_run' = [tool_run EXCEPT !.pc = "returned",
                                    !.returned = tool_run.out]
    /\ UNCHANGED unit_frame

ToolInit ==
    /\ plan = PlanEmpty
    /\ RunInit
    /\ saved_versions = NoVersions
    /\ tool_run \in {ToolRunAtStart(tool, notes) :
                        tool \in TOOL_MAP, notes \in NoteStoresAtStart}
    /\ AuxUnused

ToolNext ==
    \/ \E args \in TextArgsOf(tool_run.tool) : ToolPublishCall(args)
    \/ \E out \in OutputsOf(tool_run.tool, tool_run.args, tool_run.notes) :
          ToolWork(out)
    \/ ToolPublishResult
    \/ ToolReturn

ToolSpec == ToolInit /\ [][ToolNext]_vars

\* ------------------------------------------------------------------------
\* The note store over serial runs: execute_crew calls that follow one
\* another in one process, each making note_taker invocations between its
\* reset of the run state and its finally block.
MaxRuns == 2

MaxNoteOps == 3

NoteSpecKeys == {"k1", "k2"}

NoteSpecContents == {"n1", "n2"}

NoteSpecArgs ==
    {ToolArgs("save", k, c) : k \in NoteSpecKeys, c \in NoteSpecContents}
    \cup {ToolArgs("retrieve", k, "") : k \in NoteSpecKeys}

\* f"No note found for '{key}'"
NoNoteFound(key) == <<"No note found for '", key, "'">>

\* the result string of NoteTakerTool._run, lines 184-188, as its pieces
NoteResult(notes, args) ==
    IF args.action = "save"
    THEN <<"Saved note '", args.key, "'">>
    ELSE NoteGet([k \in DOMAIN notes |-> <<notes[k]>>], args.key,
                 NoNoteFound(args.key))

NoInvocation == [action |-> "", key |-> "", returned |-> <<>>, run |-> 0,
                 at |-> 0]

note_frame == <<plan, recorder_vars, engine_vars, worker_vars, saved_versions,
                tool_run, synthesis, pair, vault>>

\* execute_crew, lines 394-400, of the next call
NoteRunStart ==
    /\ note_run.phase = "idle"
    /\ note_run.run < MaxRuns
    /\ event_queue' = [open |-> TRUE, items |-> <<>>]
    /\ notes_store' = NoNotes
    /\ current_agent_name' = None
    /\ agent_start_times' = {}
    /\ note_run' = [note_run EXCEPT !.phase = "running", !.run = @ + 1]
    /\ UNCHANGED <<note_frame, clock, history_vars>>

\* NoteTakerTool._run, lines 178-183: tool_call is published first
NoteTakerCall(args) ==
    /\ note_run.phase = "running"
    /\ note_run.ops < MaxNoteOps
    /\ Emit(ToolCallEvent("note_taker", args))
    /\ note_run' = [note_run EXCEPT !.phase = "in_tool", !.args = args,
                                    !.ops = @ + 1]
    /\ UNCHANGED <<note_frame, notes_store, current_agent_name,
                   agent_start_times>>

\* NoteTakerTool._run, lines 184-194: the store is written or read, the
\* tool_result is published and the result string returned
NoteTakerResult ==
    /\ note_run.phase = "in_tool"
    /\ notes_store' = NotesAfter(notes_store, "note_taker", note_run.args)
    /\ Emit(ToolResultEvent("note_taker"))
    /\ note_run' = [note_run EXCEPT
           !.phase = "running",
           !.args = NoArgs,
           !.saves = IF note_run.args.action = "save"
                     THEN Append(@, [run |-> note_run.run,
                                     key |-> note_run.args.key,
                                     content |-> note_run.args.content])
                     ELSE @,
           !.last = [action |-> note_run.args.action,
                     key |-> note_run.args.key,
                     returned |-> NoteResult(notes_store, note_run.args),
                     run |-> note_run.run,
                     at |-> Len(note_run.saves)]]
    /\ UNCHANGED <<note_frame, current_agent_name, agent_start_times>>

\* execute_crew, lines 549-553: the finally block of the call
NoteRunEnd ==
    /\ note_run.phase = "running"
    /\ event_queue' = [open |-> FALSE, items |-> <<>>]
    /\ notes_store' = NoNotes
    /\ current_agent_name' = None
    /\ agent_start_times' = {}
    /\ note_run' = [note_run EXCEPT !.phase = "idle"]
    /\ UNCHANGED <<note_frame, clock, history_vars>>

NoteInit ==
    /\ plan = PlanEmpty
    /\ RunInit
    /\ saved_versions = NoVersions
    /\ tool_run = UnusedToolRun
    /\ note_run = [phase |-> "idle", run |-> 0, ops |-> 0, args |-> NoArgs,
                   saves |-> <<>>, last |-> NoInvocation]
    /\ synthesis = UnusedSynthesis
    /\ pair = UnusedPair
    /\ vault = UnusedVault

NoteNext ==
    \/ NoteRunStart
    \/ \E args \in NoteSpecArgs : NoteTakerCall(args)
    \/ NoteTakerResult
    \/ NoteRunEnd

NoteSpec == NoteInit /\ [][NoteNext]_vars

\* ------------------------------------------------------------------------
\* One plan_crew call, from the text the plan-synthesis call returned to the
\* plan it returns or the exception it raises.
MaxRawLen == 4

MaxPlanAgents == 2

MaxPlanTasks == 2

\* the text of the model's answer, as tokens: the two braces and "t" for a
\* stretch of text without braces
RawTokens == {"{", "}", "t"}

RawTexts == UNION {[1..n -> RawTokens] : n \in 0..MaxRawLen}

\* str.find / str.rfind, 0-based, -1 when absent
Find(s, c) ==
    IF \E i \in 1..Len(s) : s[i] = c
    THEN (CHOOSE i \in 1..Len(s) :
             s[i] = c /\ \A j \in 1..Len(s) : s[j] = c => i <= j) - 1
    ELSE -1

RFind(s, c) ==
    IF \E i \in 1..Len(s) : s[i] = c
    THEN (CHOOSE i \in 1..Len(s) :
             s[i] = c /\ \A j \in 1..Len(s) : s[j] = c => j <= i) - 1
    ELSE -1

\* raw_str[start:end] for 0 <= start < end
Slice(s, start, end) == SubSeq(s, start + 1, end)

\* the values "agent_index" of a task can hold in parsed JSON
AbsentIndex == [kind |-> "absent", value |-> 0]

IntIndex(n) == [kind |-> "int", value |-> n]

\* the number value + 0.5
FloatIndex(n) == [kind |-> "float", value |-> n]

\* a string, or null: neither compares with an integer
StrIndex == [kind |-> "str", value |-> 0]

IndexValues ==
    {AbsentIndex, StrIndex, FloatIndex(0)}
    \cup {IntIndex(n) : n \in {-3, -1, 0, 5}}

\* an agent object that leaves name and role to their defaults and names a
\* tool that is not available
ParsedAgent == [name |-> None, role |-> None,
                tools |-> {"web_search", "crystal_ball"}]

\* the JSON objects the text between two braces can stand for
ParsedObjects ==
    {[agents |-> [i \in 1..n |-> ParsedAgent], tasks |-> t] :
        n \in 0..MaxPlanAgents,
        t \in UNION {[1..k -> IndexValues] : k \in 0..MaxPlanTasks}}

EmptyObject == [agents |-> <<>>, tasks |-> <<>>]

\* json.loads of a slice that starts with "{" and ends with "}": "{}" is
\* the empty object, "{t}" is an object when t is the text of its members,
\* anything else (a brace inside, text that is no member list) raises
\* JSONDecodeError
JsonLoads(slice, raw) ==
    IF slice = <<"{", "}">> THEN [ok |-> TRUE, value |-> EmptyObject]
    ELSE IF slice = <<"{", "t", "}">> /\ raw.well_formed
         THEN [ok |-> TRUE, value |-> raw.members]
    ELSE [ok |-> FALSE, value |-> EmptyObject]

\* lines 295-302: the object parsed out of the answer, or the failure that
\* the except clause turns into the fallback plan
ParseRaw(raw) ==
    LET start == Find(raw.text, "{")
        end == RFind(raw.text, "}") + 1
    IN IF start >= 0 /\ end > start
       THEN JsonLoads(Slice(raw.text, start, end), raw)
       ELSE [ok |-> FALSE, value |-> EmptyObject]

\* str(uuid4()) of the i-th agent created by the call
AgentIds == <<"a1", "a2", "a3">>

AVAILABLE_TOOLS == {"web_search", "calculator", "note_taker", "text_analyzer"}

DefaultNames == <<"Agent 1", "Agent 2", "Agent 3">>

\* mutant of FallbackPlan: both tasks are given to the researcher
FallbackPlan_AllToResearcher ==
    CrewPlan(<<AgentDef(AgentIds[1], "Researcher", "Research Specialist",
                        {"web_search", "note_taker"}, 0),
               AgentDef(AgentIds[2], "Writer", "Content Synthesizer",
                        {"text_analyzer", "note_taker"}, 1)>>,
             <<TaskDef(AgentIds[1], 0), TaskDef(AgentIds[1], 1)>>)

\* _fallback_plan, lines 336-374
FallbackPlan ==
    CrewPlan(<<AgentDef(AgentIds[1], "Researcher", "Research Specialist",
                        {"web_search", "note_taker"}, 0),
               AgentDef(AgentIds[2], "Writer", "Content Synthesizer",
                        {"text_analyzer", "note_taker"}, 1)>>,
             <<TaskDef(AgentIds[1], 0), TaskDef(AgentIds[2], 1)>>)

\* lines 304-314: one AgentDefinition per parsed agent
BuildAgents(parsed) ==
    [i \in 1..Len(parsed.agents) |->
        AgentDef(AgentIds[i],
                 IF parsed.agents[i].name = None THEN DefaultNames[i]
                 ELSE parsed.agents[i].name,
                 IF parsed.agents[i].role = None THEN "General Assistant"
                 ELSE parsed.agents[i].role,
                 parsed.agents[i].tools \cap AVAILABLE_TOOLS,
                 i - 1)]

Min(a, b) == IF a < b THEN a ELSE b

\* lines 318-320: agent_idx of the task at 0-based position i, or the error
\* of the comparison with len(agents)
AgentIdx(v, i, n) ==
    LET idx == IF v.kind = "absent" THEN IntIndex(Min(i, n - 1)) ELSE v
    IN IF idx.kind = "str" THEN [error |-> "TypeError", idx |-> idx]
       ELSE IF idx.value >= n THEN [error |-> "", idx |-> IntIndex(n - 1)]
       ELSE [error |-> "", idx |-> idx]

\* line 323: agents[agent_idx].id if agents else ""
TaskAgentId(v, i, agents) ==
    LET n == Len(agents)
        r == AgentIdx(v, i, n)
        k == r.idx.value
    IN IF r.error # "" THEN [error |-> r.error, agent_id |-> ""]
       ELSE IF n = 0 THEN [error |-> "", agent_id |-> ""]
       ELSE IF r.idx.kind = "float" THEN [error |-> "TypeError", agent_id |-> ""]
       ELSE IF k >= 0 THEN [error |-> "", agent_id |-> agents[k + 1].id]
       ELSE IF k >= -n THEN [error |-> "", agent_id |-> agents[n + k + 1].id]
       ELSE [error |-> "IndexError", agent_id |-> ""]

\* lines 316-326: one TaskDefinition per parsed task
BuildTasks(parsed, agents) ==
    [i \in 1..Len(parsed.tasks) |->
        TaskAgentId(parsed.tasks[i], i - 1, agents)]

plan_frame == <<plan, recorder_vars, engine_vars, global_vars, worker_vars,
                clock, history_vars, saved_versions, tool_run, note_run, pair,
                vault>>

\* lines 293-302: the answer is parsed; a failure returns the fallback plan
PlanCrewParse ==
    /\ synthesis.pc = "answered"
    /\ LET r == ParseRaw(synthesis.raw)
       IN synthesis' =
             IF r.ok
             THEN [synthesis EXCEPT !.pc = "parsed", !.parsed = r.value]
             ELSE [synthesis EXCEPT !.pc = "returned", !.fallback = TRUE,
                                    !.result = FallbackPlan]
    /\ UNCHANGED plan_frame

\* lines 304-333: the plan is built from the parsed object
PlanCrewBuild ==
    /\ synthesis.pc = "parsed"
    /\ LET agents == BuildAgents(synthesis.parsed)
           built == BuildTasks(synthesis.parsed, agents)
           failed == {i \in 1..Len(built) : built[i].error # ""}
       IN synthesis' =
             IF failed = {}
             THEN [synthesis EXCEPT
                      !.pc = "returned",
                      !.result = CrewPlan(agents,
                          [i \in 1..Len(built) |->
                              TaskDef(built[i].agent_id, i - 1)])]
             ELSE [synthesis EXCEPT
                      !.pc = "raised",
                      !.error = built[CHOOSE i \in failed :
                                         \A j \in failed : i <= j].error]
    /\ UNCHANGED plan_frame

\* the answers whose slice between the first "{" and the last "}" is one
\* stretch of text in braces
MemberTexts ==
    {t \in RawTexts :
        /\ Find(t, "{") >= 0
        /\ RFind(t, "}") + 1 > Find(t, "{")
        /\ Slice(t, Find(t, "{"), RFind(t, "}") + 1) = <<"{", "t", "}">>}

\* what the plan-synthesis call can return: any text; where a stretch of
\* text stands in braces it may be the members of any object
RawOutputs ==
    {[text |-> t, well_formed |-> FALSE, members |-> EmptyObject] :
        t \in RawTexts}
    \cup {[text |-> t, well_formed |-> TRUE, members |-> m] :
             t \in MemberTexts, m \in ParsedObjects}

PlanInit ==
    /\ plan = PlanEmpty
    /\ RunInit
    /\ saved_versions = NoVersions
    /\ tool_run = UnusedToolRun
    /\ note_run = UnusedNoteRun
    /\ pair = UnusedPair
    /\ vault = UnusedVault
    /\ synthesis \in {[pc |-> "answered", raw |-> raw, parsed |-> EmptyObject,
                       fallback |-> FALSE, result |-> PlanEmpty,
                       error |-> ""] : raw \in RawOutputs}

PlanNext ==
    \/ PlanCrewParse
    \/ PlanCrewBuild

PlanSpec == PlanInit /\ [][PlanNext]_vars

\* ------------------------------------------------------------------------
\* The execute operation of the router: a posted plan is checked, then
\* streamed by stream_workshop_events.
PlanNoTasks == CrewPlan(<<AgentDef("a1", "Solo", "solo_role", {}, 0)>>, <<>>)

\* a plan whose task names an agent that is not in the plan
PlanDangling == CrewPlan(<<AgentDef("a1", "Solo", "solo_role", {}, 0)>>,
                         <<TaskDef("a9", 0)>>)

\* the plans a client can post
RequestPlans == Plans \cup {PlanNoTasks, PlanDangling}

\* mutant of ExecuteRequest: only the agents are looked at
ExecuteRequest_AgentsOnly ==
    /\ stream_pc = "request"
    /\ stream_pc' = IF plan.agents = <<>> THEN "rejected" ELSE "start"
    /\ UNCHANGED <<plan, session, stored_sessions, events_collected,
                   result_text, total_tools, exec_time, frames, save_log>>
    /\ UNCHANGED <<engine_vars, global_vars, worker_vars, clock, history_vars,
                   unit_vars>>

\* execute, lines 74-81: HTTP 400 for a plan without agents or without
\* tasks, otherwise the stream of stream_workshop_events is the response
ExecuteRequest ==
    /\ stream_pc = "request"
    /\ stream_pc' = IF plan.agents = <<>> \/ plan.tasks = <<>>
                    THEN "rejected" ELSE "start"
    /\ UNCHANGED <<plan, session, stored_sessions, events_collected,
                   result_text, total_tools, exec_time, frames, save_log>>
    /\ UNCHANGED <<engine_vars, global_vars, worker_vars, clock, history_vars,
                   unit_vars>>

ExecuteInit ==
    /\ plan \in RequestPlans
    /\ stream_pc = "request"
    /\ CallInit
    /\ saved_versions = NoVersions
    /\ tool_run = UnusedToolRun
    /\ AuxUnused

ExecuteNext == ExecuteRequest \/ Next

ExecuteSpec == ExecuteInit /\ [][ExecuteNext]_vars

\* ------------------------------------------------------------------------
\* Two execute_crew calls in one process. Each call has its own locals (its
\* position, its role table, its worker thread, the events its consumer has
\* received); the channel, the note store, the active agent and the
\* start-time table are the module's, shared by both. Run 2 is the later
\* one: it starts at any time after run 1 has started. Each run has a plan
\* of one agent, construction succeeds, and every event carries the run
\* that created it.
MaxPairOps == 1

RunIds == {1, 2}

PairAgents == <<"A1", "A2">>

\* an event created by call r, with the number of calls started so far
PairEvent(r, type, agent_name, from, to) ==
    [origin |-> r,
     epoch |-> pair.epoch,
     event |-> ExecutionEvent(type, agent_name, "", 0,
                              [NoMeta EXCEPT !.from = from, !.to = to])]

\* the call is between its first line and the end of its finally block
Busy(r) == pair.pc[r] \notin {"idle", "ended"}

PairWorkerDone(r) == pair.worker[r] \in {"returned", "raised"}

PairCanOperate(r) == pair.worker[r] = "running" /\ pair.ops < MaxPairOps

Received(r, events) == [pair EXCEPT !.received[r] = @ \o events]

pair_frame == <<plan, recorder_vars, engine_vars, worker_vars, clock,
                history_vars, saved_versions, tool_run, note_run, synthesis,
                vault>>

\* mutant of PairStart: a channel that exists is kept
PairStart_ReusesChannel(r) ==
    /\ pair.pc[r] = "idle"
    /\ r = 2 => pair.pc[1] # "idle"
    /\ event_queue' = IF event_queue.open THEN event_queue
                      ELSE [open |-> TRUE, items |-> <<>>]
    /\ notes_store' = NoNotes
    /\ current_agent_name' = None
    /\ agent_start_times' = {}
    /\ pair' = [pair EXCEPT
           !.pc[r] = "first_agent",
           !.epoch = @ + 1,
           !.overlapped = @ \/ \E o \in RunIds \ {r} : Busy(o)]
    /\ UNCHANGED pair_frame

\* execute_crew, lines 394-406: the module state is replaced
PairStart(r) ==
    /\ pair.pc[r] = "idle"
    /\ r = 2 => pair.pc[1] # "idle"
    /\ event_queue' = [open |-> TRUE, items |-> <<>>]
    /\ notes_store' = NoNotes
    /\ current_agent_name' = None
    /\ agent_start_times' = {}
    /\ pair' = [pair EXCEPT
           !.pc[r] = "first_agent",
           !.epoch = @ + 1,
           !.overlapped = @ \/ \E o \in RunIds \ {r} : Busy(o)]
    /\ UNCHANGED pair_frame

\* lines 491-499: the first agent becomes the active one
PairFirstAgent(r) ==
    /\ pair.pc[r] = "first_agent"
    /\ current_agent_name' = PairAgents[r]
    /\ agent_start_times' = agent_start_times \cup {PairAgents[r]}
    /\ pair' = [Received(r, <<PairEvent(r, "agent_start", PairAgents[r],
                                        "", "")>>)
                   EXCEPT !.pc[r] = "kickoff"]
    /\ UNCHANGED <<pair_frame, event_queue, notes_store>>

\* line 501: crew.kickoff is handed to a thread
PairKickoff(r) ==
    /\ pair.pc[r] = "kickoff"
    /\ pair' = [pair EXCEPT !.pc[r] = "poll", !.worker[r] = "running"]
    /\ UNCHANGED <<pair_frame, global_vars>>

\* lines 506-509: an event of the module's channel is yielded
PairPollGet(r) ==
    /\ pair.pc[r] = "poll"
    /\ event_queue.open
    /\ event_queue.items # <<>>
    /\ event_queue' = QueueRest(event_queue)
    /\ pair' = Received(r, <<QueueGet(event_queue)>>)
    /\ UNCHANGED <<pair_frame, notes_store, current_agent_name,
                   agent_start_times>>

\* lines 506 and 512-513: _event_queue is None, the attribute access raises
\* AttributeError, which the handler at line 543 catches
PairPollFails(r) ==
    /\ pair.pc[r] \in {"poll", "drain"}
    /\ ~event_queue.open
    /\ pair' = [pair EXCEPT !.pc[r] = "except"]
    /\ UNCHANGED <<pair_frame, global_vars>>

\* lines 510-511: the wait timed out and the worker is done
PairPollTimeout(r) ==
    /\ pair.pc[r] = "poll"
    /\ PairWorkerDone(r)
    /\ pair' = [pair EXCEPT !.pc[r] = "drain"]
    /\ UNCHANGED <<pair_frame, global_vars>>

\* lines 512-516: what is left in the module's channel is yielded
PairDrainGet(r) ==
    /\ pair.pc[r] = "drain"
    /\ event_queue.open
    /\ event_queue.items # <<>>
    /\ event_queue' = QueueRest(event_queue)
    /\ pair' = Received(r, <<QueueGet(event_queue)>>)
    /\ UNCHANGED <<pair_frame, notes_store, current_agent_name,
                   agent_start_times>>

\* line 517
PairDrainDone(r) ==
    /\ pair.pc[r] = "drain"
    /\ event_queue.open
    /\ event_queue.items = <<>>
    /\ pair' = [pair EXCEPT !.pc[r] = "await"]
    /\ UNCHANGED <<pair_frame, global_vars>>

\* lines 520-541: the result of the worker, agent_complete for the active
\* agent of the module, crew_complete; or the exception of the worker
PairAwait(r) ==
    /\ pair.pc[r] = "await"
    /\ pair' = IF pair.worker[r] = "raised"
               THEN [pair EXCEPT !.pc[r] = "except"]
               ELSE [Received(r,
                       (IF ActiveAgentKnown
                        THEN <<PairEvent(r, "agent_complete",
                                         current_agent_name, "", "")>>
                        ELSE <<>>)
                       \o <<PairEvent(r, "crew_complete", "", "", "")>>)
                     EXCEPT !.pc[r] = "finally"]
    /\ UNCHANGED <<pair_frame, global_vars>>

\* lines 543-548
PairExcept(r) ==
    /\ pair.pc[r] = "except"
    /\ pair' = [Received(r, <<PairEvent(r, "error", "", "", "")>>)
                   EXCEPT !.pc[r] = "finally"]
    /\ UNCHANGED <<pair_frame, global_vars>>

\* lines 549-553
PairFinally(r) ==
    /\ pair.pc[r] = "finally"
    /\ event_queue' = [open |-> FALSE, items |-> <<>>]
    /\ notes_store' = NoNotes
    /\ current_agent_name' = None
    /\ agent_start_times' = {}
    /\ pair' = [pair EXCEPT !.pc[r] = "ended"]
    /\ UNCHANGED pair_frame

\* mutant of PairStepCallback: the role table is the module's as well and
\* holds the agent of the other call
PairStepCallback_SharedRoles(r) ==
    /\ PairCanOperate(r)
    /\ LET new_name == PairAgents[3 - r]
           leaving == IF ActiveAgentKnown
                      THEN <<PairEvent(r, "agent_complete",
                                       current_agent_name, "", ""),
                             PairEvent(r, "handoff", current_agent_name,
                                       current_agent_name, new_name)>>
                      ELSE <<>>
           published == leaving
                        \o <<PairEvent(r, "agent_start", new_name, "", "")>>
           q1 == EmitSync(event_queue, published[1])
           q2 == IF Len(published) > 1 THEN EmitSync(q1, published[2]) ELSE q1
           q3 == IF Len(published) > 2 THEN EmitSync(q2, published[3]) ELSE q2
       IN IF new_name # current_agent_name
          THEN /\ event_queue' = q3
               /\ current_agent_name' = new_name
               /\ agent_start_times' = agent_start_times \cup {new_name}
          ELSE UNCHANGED <<event_queue, current_agent_name, agent_start_times>>
    /\ pair' = [pair EXCEPT !.ops = @ + 1]
    /\ UNCHANGED <<pair_frame, notes_store>>

\* step_callback, lines 445-481, for a step of the agent of the call
PairStepCallback(r) ==
    /\ PairCanOperate(r)
    /\ LET new_name == PairAgents[r]
           leaving == IF ActiveAgentKnown
                      THEN <<PairEvent(r, "agent_complete",
                                       current_agent_name, "", ""),
                             PairEvent(r, "handoff", current_agent_name,
                                       current_agent_name, new_name)>>
                      ELSE <<>>
           published == leaving
                        \o <<PairEvent(r, "agent_start", new_name, "", "")>>
           q1 == EmitSync(event_queue, published[1])
           q2 == IF Len(published) > 1 THEN EmitSync(q1, published[2]) ELSE q1
           q3 == IF Len(published) > 2 THEN EmitSync(q2, published[3]) ELSE q2
       IN IF new_name # current_agent_name
          THEN /\ event_queue' = q3
               /\ current_agent_name' = new_name
               /\ agent_start_times' = agent_start_times \cup {new_name}
          ELSE UNCHANGED <<event_queue, current_agent_name, agent_start_times>>
    /\ pair' = [pair EXCEPT !.ops = @ + 1]
    /\ UNCHANGED <<pair_frame, notes_store>>

\* _task_callback, lines 381-391
PairTaskCallback(r) ==
    /\ PairCanOperate(r)
    /\ event_queue' = IF ActiveAgentKnown
                      THEN EmitSync(event_queue,
                               PairEvent(r, "agent_complete",
                                         current_agent_name, "", ""))
                      ELSE event_queue
    /\ pair' = [pair EXCEPT !.ops = @ + 1]
    /\ UNCHANGED <<pair_frame, notes_store, current_agent_name,
                   agent_start_times>>

\* NoteTakerTool._run, lines 178-183
PairToolCall(r) ==
    /\ PairCanOperate(r)
    /\ event_queue' = EmitSync(event_queue,
                               PairEvent(r, "tool_call", "", "", ""))
    /\ pair' = [pair EXCEPT !.ops = @ + 1, !.worker[r] = "in_tool"]
    /\ UNCHANGED <<pair_frame, notes_store, current_agent_name,
                   agent_start_times>>

\* NoteTakerTool._run, lines 184-194, saving a note of the call under k1
PairToolResult(r) ==
    /\ pair.worker[r] = "in_tool"
    /\ notes_store' = NotePut(notes_store, "k1", PairAgents[r])
    /\ event_queue' = EmitSync(event_queue,
                               PairEvent(r, "tool_result", "", "", ""))
    /\ pair' = [pair EXCEPT !.worker[r] = "running"]
    /\ UNCHANGED <<pair_frame, current_agent_name, agent_start_times>>

\* crew.kickoff returns or raises
PairWorkerEnd(r, how) ==
    /\ pair.worker[r] = "running"
    /\ pair' = [pair EXCEPT !.worker[r] = how]
    /\ UNCHANGED <<pair_frame, global_vars>>

PairInit ==
    /\ plan = PlanEmpty
    /\ RunInit
    /\ saved_versions = NoVersions
    /\ tool_run = UnusedToolRun
    /\ note_run = UnusedNoteRun
    /\ synthesis = UnusedSynthesis
    /\ vault = UnusedVault
    /\ pair = [pc |-> [r \in RunIds |-> "idle"],
               worker |-> [r \in RunIds |-> "not_started"],
               received |-> [r \in RunIds |-> <<>>],
               ops |-> 0,
               epoch |-> 0,
               overlapped |-> FALSE]

PairNext ==
    \E r \in RunIds :
        \/ PairStart(r)
        \/ PairFirstAgent(r)
        \/ PairKickoff(r)
        \/ PairPollGet(r)
        \/ PairPollFails(r)
        \/ PairPollTimeout(r)
        \/ PairDrainGet(r)
        \/ PairDrainDone(r)
        \/ PairAwait(r)
        \/ PairExcept(r)
        \/ PairFinally(r)
        \/ PairStepCallback(r)
        \/ PairTaskCallback(r)
        \/ PairToolCall(r)
        \/ PairToolResult(r)
        \/ \E how \in {"returned", "raised"} : PairWorkerEnd(r, how)

PairSpec == PairInit /\ [][PairNext]_vars

\* ------------------------------------------------------------------------
\* Runs of plans whose shape the engine must cope with: agents listed
\* against their order values, two agents of one role, two agents of one
\* name.
\* B is listed first and owns the first task; A has the lowest order
PlanReversed ==
    CrewPlan(<<AgentDef("b1", "B", "role_b", {"web_search"}, 1),
               AgentDef("a1", "A", "role_a", {}, 0)>>,
             <<TaskDef("b1", 0), TaskDef("a1", 1)>>)

PlanSharedRole ==
    CrewPlan(<<AgentDef("a1", "A", "analyst", {}, 0),
               AgentDef("a2", "B", "analyst", {}, 1)>>,
             <<TaskDef("a1", 0), TaskDef("a2", 1)>>)

PlanSharedName ==
    CrewPlan(<<AgentDef("a1", "N", "role_a", {}, 0),
               AgentDef("a2", "N", "role_b", {}, 1)>>,
             <<TaskDef("a1", 0), TaskDef("a2", 1)>>)

ShapePlans == {PlanReversed, PlanSharedRole, PlanSharedName}

ShapeInit ==
    /\ plan \in ShapePlans
    /\ RunInit
    /\ saved_versions = NoVersions
    /\ tool_run = UnusedToolRun
    /\ AuxUnused

ShapeSpec == ShapeInit /\ [][Next]_vars

\* ------------------------------------------------------------------------
\* The documents table of the vault: rows are inserted by save_document,
\* changed by update_document and removed by delete_document.
MaxDocs == 2

MaxVaultOps == 2

\* the columns of the table, lines 23-40
Columns ==
    {"id", "filename", "file_path", "file_type", "file_size", "doc_type",
     "title", "summary", "raw_text", "entities_json", "key_facts_json",
     "status", "error_message", "user_email", "created_at", "updated_at"}

\* the set allowed of update_document, lines 130-133
AllowedFields ==
    {"doc_type", "title", "summary", "raw_text", "entities_json",
     "key_facts_json", "status", "error_message"}

\* str(uuid.uuid4()): an id no earlier call has returned
DocIds == <<"d1", "d2", "d3", "d4">>

UserEmails == {"user@example.com", "other@example.com"}

\* the keys an updates map is drawn from: two allowed columns and the four
\* columns that identify a document
UpdateKeys ==
    {"status", "title", "id", "user_email", "filename", "file_path"}

\* the updates maps: no key, one key, an allowed key with one that is
\* not, the three keys of test_update_ignores_disallowed_fields, all keys
UpdateMaps ==
    UNION {[keys -> {"v1"}] :
              keys \in {K \in SUBSET UpdateKeys :
                           \/ Cardinality(K) <= 1
                           \/ K = {"status", "user_email"}
                           \/ K = {"user_email", "id", "file_path"}
                           \/ K = UpdateKeys}}

\* the row save_document inserts, lines 67-82; NULL is None
SavedRow(id, filename, user_email, now) ==
    [id |-> id, filename |-> filename,
     file_path |-> <<"files", id, filename>>,
     file_type |-> "txt", file_size |-> 4,
     doc_type |-> None, title |-> None, summary |-> None, raw_text |-> None,
     entities_json |-> None, key_facts_json |-> None,
     status |-> "pending", error_message |-> None,
     user_email |-> user_email, created_at |-> now, updated_at |-> now]

\* UPDATE documents SET k = ?, ... WHERE id = ?
UpdateRows(rows, doc_id, assigned) ==
    [id \in DOMAIN rows |->
        IF id = doc_id
        THEN [c \in Columns |->
                 IF c \in DOMAIN assigned THEN assigned[c] ELSE rows[id][c]]
        ELSE rows[id]]

\* mutant of Filtered: every key of the map that is a column is assigned
Filtered_AnyColumn(updates) ==
    [k \in DOMAIN updates \cap (Columns \ {"updated_at"}) |-> updates[k]]

\* line 134: the keys that are allowed
Filtered(updates) == [k \in DOMAIN updates \cap AllowedFields |-> updates[k]]

vault_frame == <<plan, recorder_vars, engine_vars, global_vars, worker_vars,
                 clock, history_vars, saved_versions, tool_run, note_run,
                 synthesis, pair>>

\* json.loads of a JSON column
JsonValue(text) == <<"json", text>>

\* _row_to_dict, lines 204-213: the two JSON columns are parsed when set
RowToDict(row) ==
    [c \in Columns |->
        IF c \in {"entities_json", "key_facts_json"} /\ row[c] # None
        THEN JsonValue(row[c]) ELSE row[c]]

\* the None get_document returns, as a record a row can be compared with
NoDocument == [id |-> None]

\* get_document, lines 85-93
GetDocument(rows, doc_id) ==
    IF doc_id \in DOMAIN rows THEN RowToDict(rows[doc_id]) ELSE NoDocument

\* the columns list_documents selects, lines 105-106
ListColumns ==
    {"id", "filename", "file_type", "file_size", "doc_type", "title",
     "summary", "status", "error_message", "user_email", "created_at",
     "updated_at"}

\* list_documents without doc_type and search, lines 104-126; LIMIT 50 cuts
\* nothing off a table of at most MaxDocs rows, and the order is left out
ListDocuments(rows, user_email) ==
    {[c \in ListColumns |-> rows[d][c]] :
        d \in {x \in DOMAIN rows : rows[x].user_email = user_email}}

\* the update_document and delete_document calls made so far
VaultCalls == vault.ops + Cardinality(vault.deleted)

\* save_document, lines 57-83
SaveDocument(filename, user_email) ==
    LET n == Cardinality(DOMAIN vault.at_save) + 1
        id == DocIds[n]
        row == SavedRow(id, filename, user_email, vault.now)
    IN /\ n <= MaxDocs
       /\ vault' = [vault EXCEPT
              !.rows = [d \in DOMAIN @ \cup {id} |->
                           IF d = id THEN row ELSE @[d]],
              !.at_save = [d \in DOMAIN @ \cup {id} |->
                              IF d = id THEN row ELSE @[d]],
              !.now = @ + 1]
       /\ UNCHANGED vault_frame

\* update_document, lines 128-147
UpdateDocument(doc_id, updates) ==
    /\ VaultCalls < MaxVaultOps
    /\ LET filtered == Filtered(updates)
           assigned == [k \in DOMAIN filtered \cup {"updated_at"} |->
                           IF k = "updated_at" THEN vault.now
                           ELSE filtered[k]]
       IN vault' = [vault EXCEPT
              !.rows = IF DOMAIN filtered = {} THEN @
                       ELSE UpdateRows(@, doc_id, assigned),
              !.ops = @ + 1,
              !.now = @ + 1,
              !.last = [doc_id |-> doc_id, keys |-> DOMAIN updates],
              !.updated = IF DOMAIN filtered = {} THEN @
                          ELSE @ \cup ({doc_id} \cap DOMAIN vault.rows)]
    /\ UNCHANGED vault_frame

\* mutant of DeleteDocument: the files are removed and the row is kept
DeleteDocument_KeepsRow(doc_id) ==
    /\ VaultCalls < MaxVaultOps
    /\ doc_id \in DOMAIN vault.at_save
    /\ doc_id \notin vault.deleted
    /\ vault' = [vault EXCEPT !.deleted = @ \cup {doc_id}]
    /\ UNCHANGED vault_frame

\* delete_document, lines 149-157, of an id save_document returned and no
\* earlier call deleted
DeleteDocument(doc_id) ==
    /\ VaultCalls < MaxVaultOps
    /\ doc_id \in DOMAIN vault.at_save
    /\ doc_id \notin vault.deleted
    /\ vault' = [vault EXCEPT
           !.rows = [d \in DOMAIN @ \ {doc_id} |-> @[d]],
           !.deleted = @ \cup {doc_id}]
    /\ UNCHANGED vault_frame

VaultInit ==
    /\ plan = PlanEmpty
    /\ RunInit
    /\ saved_versions = NoVersions
    /\ tool_run = UnusedToolRun
    /\ note_run = UnusedNoteRun
    /\ synthesis = UnusedSynthesis
    /\ pair = UnusedPair
    /\ vault = [rows |-> [d \in {} |-> None],
                at_save |-> [d \in {} |-> None],
                ops |-> 0, now |-> 1,
                last |-> [doc_id |-> "", keys |-> {}],
                updated |-> {}, deleted |-> {}]

\* the ids the callers pass: each is unknown until save_document returns
\* it and again after delete_document
VaultTargets == {DocIds[i] : i \in 1..MaxDocs}

VaultNext ==
    \/ \E filename \in {"test.txt"}, user_email \in UserEmails :
          SaveDocument(filename, user_email)
    \/ \E doc_id \in VaultTargets :
          \E updates \in UpdateMaps : UpdateDocument(doc_id, updates)
    \/ \E doc_id \in VaultTargets : DeleteDocument(doc_id)

VaultSpec == VaultInit /\ [][VaultNext]_vars

\* ------------------------------------------------- vocabulary of the claims
TerminalTypes == {"crew_complete", "error"}

IsTerminalFrame(f) == ~f.sentinel /\ f.event.type \in TerminalTypes

TerminalFrameIndexes == {i \in 1..Len(frames) : IsTerminalFrame(frames[i])}

SentinelIndexes == {i \in 1..Len(frames) : frames[i].sentinel}

Indexes(type) == {i \in 1..Len(yielded) : yielded[i].type = type}

EngineFinished == ec_pc \in {"finally", "ended"}

TerminalYielded == \E i \in 1..Len(yielded) : yielded[i].type \in TerminalTypes

\* the yielded events that came through the channel, in the order yielded
FromChannel(e) == \E k \in 1..Len(accepted) : accepted[k] = e

ChannelYielded == SelectSeq(yielded, FromChannel)

NoEventDropped == n_dropped = 0

IsEvent(i, type, name) ==
    /\ i \in 1..Len(yielded)
    /\ yielded[i].type = type
    /\ yielded[i].agent_name = name

\* an event carries an agent's name only if that agent was made active
NamedAgents == {yielded[i].agent_name : i \in 1..Len(yielded)} \ {""}

SameTool(i, j) == yielded[i].metadata.tool = yielded[j].metadata.tool

StillPulling == ec_pc \in {"poll", "drain"}

\* ---------------------------------------------------------------------- C1
\* C1: the frames sent to the caller hold at most one terminal event
\* (crew_complete or error), nothing but the sentinel follows it, once the
\* engine's event sequence has ended there is exactly one, and a sentinel is
\* always directly preceded by the terminal event.
C1_TerminalExclusive ==
    /\ Cardinality(TerminalFrameIndexes) <= 1
    /\ \A i \in TerminalFrameIndexes :
          \A j \in (i + 1)..Len(frames) : frames[j].sentinel
    /\ EngineFinished => Cardinality(TerminalFrameIndexes) = 1
    /\ \A i \in SentinelIndexes : i > 1 /\ IsTerminalFrame(frames[i - 1])

C1_Witness ==
    /\ stream_pc = "done"
    /\ worker_pc = "raised"
    /\ Len(frames) >= 4
    /\ frames[Len(frames)].sentinel
    /\ frames[Len(frames) - 1].event.type = "error"

\* ---------------------------------------------------------------------- C2
\* C2: on every exit path of stream_workshop_events, a failure of either
\* save_session call included, the sentinel is sent exactly once and is the
\* last frame.
C2_SentinelOnEveryExit ==
    stream_pc \in {"done", "raised"} =>
        /\ Cardinality(SentinelIndexes) = 1
        /\ frames[Len(frames)].sentinel

\* ---------------------------------------------------------------------- C3
\* C3: when an exception was raised in construction, by the worker or in the
\* drain, execute_crew yields exactly one error event with the exception's
\* message, nothing after it, and no crew_complete.
C3_SingleErrorNoCrewComplete ==
    (exc # "" \/ worker_pc = "raised") =>
        /\ Indexes("crew_complete") = {}
        /\ Cardinality(Indexes("error")) <= 1
        /\ \A i \in Indexes("error") :
              i = Len(yielded) /\ yielded[i].content = exc
        /\ EngineFinished => Cardinality(Indexes("error")) = 1

C3_Witness ==
    /\ ec_pc = "ended"
    /\ worker_pc = "raised"
    /\ worker_ops = 0
    /\ Cardinality(Indexes("error")) = 1
    /\ yielded[Len(yielded)].content = "worker_error"

\* ---------------------------------------------------------------------- C4
\* C4: the events yielded that came through the channel are, in the order
\* yielded, a prefix of the events accepted into the channel; while the
\* channel exists, what was delivered followed by what is buffered is
\* exactly what was accepted.
C4_ChannelOrderKept ==
    /\ Len(ChannelYielded) <= Len(accepted)
    /\ ChannelYielded = SubSeq(accepted, 1, Len(ChannelYielded))
    /\ event_queue.open => ChannelYielded \o event_queue.items = accepted

C4_Witness ==
    /\ ec_pc = "ended"
    /\ Len(accepted) >= 3
    /\ ChannelYielded = accepted
    /\ Len(drained) >= 1
    /\ Len(drained) < Len(accepted)

\* ---------------------------------------------------------------------- C5
\* C5: the poll loop is left only with the worker done and the channel
\* empty, and once the terminal event is yielded every accepted event has
\* been yielded before it.
C5_NoBufferedEventLost ==
    /\ ec_pc \in {"await_result", "final_agent_complete", "crew_complete"}
          => WorkerDone /\ event_queue.items = <<>>
    /\ ec_pc = "except" => event_queue.items = <<>>
    /\ TerminalYielded =>
          /\ ChannelYielded = accepted
          /\ yielded[Len(yielded)].type \in TerminalTypes

C5_Witness ==
    /\ ec_pc = "ended"
    /\ worker_pc = "raised"
    /\ Len(drained) >= 2
    /\ ChannelYielded = accepted

\* ---------------------------------------------------------------------- C6
\* C6: the channel never holds more than its capacity; a publication made
\* while it is full leaves the channel as it was (the new event is
\* discarded); the worker, once started, reaches its end whatever the
\* consumer does; and a run whose worker returned ends with crew_complete.
C6_PublishNeverBlocks ==
    /\ [](Len(event_queue.items) <= QueueMaxSize)
    /\ [][(n_emitted' = n_emitted + 1 /\ QueueFull(event_queue))
            => (event_queue' = event_queue /\ accepted' = accepted)]_vars
    /\ (worker_pc = "running") ~> WorkerDone
    /\ []((EngineFinished /\ worker_pc = "returned")
            => yielded[Len(yielded)].type = "crew_complete")

C6_Witness ==
    /\ ec_pc = "ended"
    /\ worker_pc = "returned"
    /\ n_dropped >= 2
    /\ yielded[Len(yielded)].type = "crew_complete"

\* ---------------------------------------------------------------------- C7
\* C7 as claimed: in the stream of any finished run every tool_call is
\* directly followed by a tool_result of the same tool and every tool_result
\* is directly preceded by its tool_call.
C7_PairedInEveryRun ==
    ec_pc = "ended" =>
        /\ \A i \in Indexes("tool_call") :
              /\ i < Len(yielded)
              /\ yielded[i + 1].type = "tool_result"
              /\ SameTool(i, i + 1)
        /\ \A i \in Indexes("tool_result") :
              /\ i > 1
              /\ yielded[i - 1].type = "tool_call"
              /\ SameTool(i, i - 1)

\* C7 as amended: as long as no event has been dropped by the full channel,
\* every delivered tool_call is directly followed by the tool_result of the
\* same tool (or is the event delivered last while the engine still pulls)
\* and every delivered tool_result is directly preceded by its tool_call.
C7_PairedWhenNothingDropped ==
    NoEventDropped =>
        /\ \A i \in Indexes("tool_call") :
              /\ i < Len(yielded) =>
                    yielded[i + 1].type = "tool_result" /\ SameTool(i, i + 1)
              /\ i = Len(yielded) => StillPulling
        /\ \A i \in Indexes("tool_result") :
              /\ i > 1
              /\ yielded[i - 1].type = "tool_call"
              /\ SameTool(i, i - 1)

C7_Witness ==
    /\ ec_pc = "ended"
    /\ NoEventDropped
    /\ \E i, j \in Indexes("tool_call") : ~SameTool(i, j)

\* ---------------------------------------------------------------------- C8
\* C8 as claimed: in a finished run, for every agent named in the stream,
\* an agent_start of it precedes every other event carrying its name, every
\* such event (handoffs included) precedes an agent_complete of that agent,
\* and agent_complete of the departing agent precedes the handoff, which
\* precedes the next agent's agent_start.
C8_BracketInEveryRun ==
    ec_pc = "ended" =>
        \A a \in NamedAgents :
            /\ \A i \in 1..Len(yielded) :
                  yielded[i].agent_name = a =>
                      \E s \in 1..i : IsEvent(s, "agent_start", a)
            /\ \A i \in 1..Len(yielded) :
                  (/\ yielded[i].agent_name = a
                   /\ yielded[i].type \notin {"agent_start", "agent_complete"})
                  => \E j \in (i + 1)..Len(yielded) :
                        IsEvent(j, "agent_complete", a)
            /\ \A i \in Indexes("handoff") :
                  yielded[i].agent_name = a =>
                      /\ \E j \in 1..(i - 1) : IsEvent(j, "agent_complete", a)
                      /\ \E k \in (i + 1)..Len(yielded) :
                            IsEvent(k, "agent_start", yielded[i].metadata.to)

\* C8 as amended: as long as no event has been dropped, an agent_start of an
\* agent precedes (or is) every delivered event carrying its name, handoffs
\* included; agent_complete of the departing agent precedes the handoff,
\* which in a finished run precedes the next agent's agent_start; and in a
\* run that reaches crew_complete every agent_start is followed by an
\* agent_complete of that agent.  A handoff follows its agent's
\* agent_complete and need not precede another one.
C8_BracketWhenNothingDropped ==
    NoEventDropped =>
        /\ \A i \in 1..Len(yielded) :
              yielded[i].agent_name # "" =>
                  \E s \in 1..i : IsEvent(s, "agent_start", yielded[i].agent_name)
        /\ \A i \in Indexes("handoff") :
              /\ \E j \in 1..(i - 1) :
                    IsEvent(j, "agent_complete", yielded[i].metadata.from)
              /\ EngineFinished =>
                    \E k \in (i + 1)..Len(yielded) :
                        IsEvent(k, "agent_start", yielded[i].metadata.to)
        /\ Indexes("crew_complete") # {} =>
              \A i \in Indexes("agent_start") :
                  \E j \in (i + 1)..Len(yielded) :
                      IsEvent(j, "agent_complete", yielded[i].agent_name)

C8_Witness ==
    /\ ec_pc = "ended"
    /\ NoEventDropped
    /\ Indexes("handoff") # {}
    /\ Indexes("crew_complete") # {}
    /\ \E i \in Indexes("handoff") :
          ~\E j \in (i + 1)..Len(yielded) :
              IsEvent(j, "agent_complete", yielded[i].agent_name)

\* ---------------------------------------------------------------------- C9
\* C9 as claimed: in any finished run, runs that drop events included, a
\* handoff is neither first nor last, is directly preceded by agent_complete
\* of its 'from' agent and directly followed by agent_start of its 'to'
\* agent, a different agent.
C9_PlacementInEveryRun ==
    ec_pc = "ended" =>
        \A i \in Indexes("handoff") :
            /\ i > 1
            /\ i < Len(yielded)
            /\ yielded[i].metadata.from # yielded[i].metadata.to
            /\ IsEvent(i - 1, "agent_complete", yielded[i].metadata.from)
            /\ IsEvent(i + 1, "agent_start", yielded[i].metadata.to)

\* C9 as amended: in every run a handoff is never the first event, never the
\* last event of the finished stream, and names two different agents; as
\* long as no event has been dropped it is directly preceded by
\* agent_complete of its 'from' agent and directly followed by agent_start
\* of its 'to' agent (or is the event delivered last while the engine still
\* pulls).
C9_PlacementWhenNothingDropped ==
    \A i \in Indexes("handoff") :
        /\ i > 1
        /\ EngineFinished => i < Len(yielded)
        /\ yielded[i].metadata.from # yielded[i].metadata.to
        /\ NoEventDropped =>
              /\ IsEvent(i - 1, "agent_complete", yielded[i].metadata.from)
              /\ i < Len(yielded) =>
                    IsEvent(i + 1, "agent_start", yielded[i].metadata.to)
              /\ i = Len(yielded) => StillPulling

C9_Witness ==
    /\ ec_pc = "ended"
    /\ NoEventDropped
    /\ Cardinality(Indexes("handoff")) >= 2

\* --------------------------------------------------------------------- C10
\* C10: the total_tool_calls of a crew_complete event equals the number of
\* tool_call events yielded before it, pulled by a timed poll or by the
\* final drain.
C10_ToolCallAccounting ==
    \A i \in Indexes("crew_complete") :
        yielded[i].metadata.total_tool_calls =
            Cardinality({j \in Indexes("tool_call") : j < i})

C10_Witness ==
    /\ ec_pc = "ended"
    /\ Indexes("crew_complete") # {}
    /\ yielded[Len(yielded)].metadata.total_tool_calls >= 2
    /\ \E k \in 1..Len(drained) : drained[k].type = "tool_call"
    /\ \E i \in Indexes("tool_call") :
          ~\E k \in 1..Len(drained) : drained[k] = yielded[i]

\* the events of the frames sent to the caller, in the order sent
RECURSIVE EventsOfFrames(_)
EventsOfFrames(fs) ==
    IF fs = <<>> THEN <<>>
    ELSE IF Head(fs).sentinel THEN EventsOfFrames(Tail(fs))
    ELSE <<Head(fs).event>> \o EventsOfFrames(Tail(fs))

StoredSession == stored_sessions[IndexOfId(stored_sessions, SessionId)]

IsStored == IndexOfId(stored_sessions, SessionId) # 0

RunStateEmpty ==
    /\ event_queue = [open |-> FALSE, items |-> <<>>]
    /\ notes_store = NoNotes
    /\ current_agent_name = None
    /\ agent_start_times = {}

RunStateFresh ==
    /\ event_queue = [open |-> TRUE, items |-> <<>>]
    /\ notes_store = NoNotes
    /\ current_agent_name = None
    /\ agent_start_times = {}

\* --------------------------------------------------------------------- C11
\* C11: a handoff is published only on a change to an agent of a different
\* name: the handoff about to be published and every handoff accepted name
\* two different agents, a plan with exactly one agent never publishes a
\* handoff, and a step notification that reports the active agent publishes
\* nothing and leaves the channel and the worker where they were.
C11_HandoffOnlyOnChange ==
    /\ [](worker_pc = "step_handoff" => worker_new_name # current_agent_name)
    /\ [](\A k \in 1..Len(accepted) :
              accepted[k].type = "handoff" =>
                  accepted[k].metadata.from # accepted[k].metadata.to)
    /\ [](Len(plan.agents) = 1 =>
              /\ worker_pc \notin {"step_handoff", "step_start"}
              /\ \A k \in 1..Len(accepted) : accepted[k].type # "handoff")
    /\ [][\A agent_role \in StepRoles :
              (ReportsActiveAgent(agent_role) /\ StepCallback(agent_role))
              => /\ n_emitted' = n_emitted
                 /\ event_queue' = event_queue
                 /\ worker_pc' = worker_pc
                 /\ current_agent_name' = current_agent_name]_vars

C11_Witness ==
    /\ ec_pc = "ended"
    /\ plan = PlanAB
    /\ same_agent_steps >= 1
    /\ Indexes("handoff") # {}

\* --------------------------------------------------------------------- C12
\* C12: when the worker's call has returned, the events execute_crew yields
\* end with crew_complete, whose content is the worker's result text and
\* whose agents_used is the number of agents of the plan; if an agent is
\* active, the event before it is agent_complete of that agent.
C12_ClosingEvents ==
    /\ (ec_pc = "finally" /\ worker_pc = "returned") =>
          /\ yielded # <<>>
          /\ yielded[Len(yielded)].type = "crew_complete"
          /\ yielded[Len(yielded)].content = worker_result
          /\ yielded[Len(yielded)].metadata.agents_used = Len(plan.agents)
          /\ ActiveAgentKnown =>
                IsEvent(Len(yielded) - 1, "agent_complete", current_agent_name)
    /\ (ec_pc = "ended" /\ worker_pc = "returned") =>
          /\ yielded # <<>>
          /\ yielded[Len(yielded)].type = "crew_complete"
          /\ yielded[Len(yielded)].content = worker_result

C12_Witness ==
    /\ ec_pc = "finally"
    /\ worker_pc = "returned"
    /\ plan = PlanAB
    /\ current_agent_name = "A"
    /\ agent_start_times = {"A"}
    /\ worker_result = "crew_result"
    /\ yielded[Len(yielded)].metadata.agents_used = 2
    /\ IsEvent(Len(yielded) - 1, "agent_complete", "A")

\* --------------------------------------------------------------------- C13
\* C13: once execute_crew has finished through its finally block (after
\* crew_complete, after the error event of a failed construction, after the
\* error event of a failed worker) the channel is unset, the note store is
\* empty, no agent is active and the start-time table is empty; and when a
\* run is about to construct its crew the four are fresh, nothing has been
\* yielded and the worker has not been started.
C13_RunStateReset ==
    /\ ec_pc = "ended" => RunStateEmpty
    /\ ec_pc = "construct" =>
          /\ RunStateFresh
          /\ yielded = <<>>
          /\ worker_pc = "not_started"

C13_Witness ==
    /\ ec_pc = "ended"
    /\ worker_pc = "raised"
    /\ RunStateEmpty
    /\ Indexes("handoff") # {}
    /\ \E i \in Indexes("tool_result") :
          /\ i > 1
          /\ yielded[i - 1].metadata.action = "save"

\* --------------------------------------------------------------------- C14
\* C14: when a call of stream_workshop_events has ended, with the sentinel or
\* by an exception, save_session has been invoked exactly twice: first with
\* status running before any frame, then with status complete or error
\* after the last event frame.
C14_SavedExactlyTwice ==
    stream_pc \in {"done", "raised"} =>
        /\ Len(save_log) = 2
        /\ save_log[1].status = "running"
        /\ save_log[1].frames_before = 0
        /\ save_log[2].status \in {"complete", "error"}
        /\ save_log[2].frames_before = Len(EventsOfFrames(frames))

\* --------------------------------------------------------------------- C15
\* C15: when the engine's event sequence has ended without an exception and
\* the session has been persisted at the end, the stored session has status
\* complete, its events are the events of the frames sent, in order, and
\* its result, execution time and tool-call count are those of the
\* crew_complete event of the run (the defaults if there is none).
C15_FinalSessionMatchesRun ==
    (stream_pc = "done" /\ ec_pc = "ended") =>
        /\ IsStored
        /\ StoredSession.status = "complete"
        /\ StoredSession.events = EventsOfFrames(frames)
        /\ StoredSession.events = yielded
        /\ \A i \in Indexes("crew_complete") :
              /\ StoredSession.result = yielded[i].content
              /\ StoredSession.execution_time_seconds =
                     yielded[i].metadata.execution_time_seconds
              /\ StoredSession.total_tokens =
                     yielded[i].metadata.total_tool_calls
        /\ Indexes("crew_complete") = {} =>
              /\ StoredSession.result = ""
              /\ StoredSession.execution_time_seconds = 0
              /\ StoredSession.total_tokens = 0

C15_Witness ==
    /\ stream_pc = "done"
    /\ ec_pc = "ended"
    /\ IsStored
    /\ Len(StoredSession.events) >= 5
    /\ StoredSession.result = "crew_result"
    /\ StoredSession.execution_time_seconds >= 3
    /\ StoredSession.total_tokens >= 1

\* --------------------------------------------------------------------- C16
\* C16: when an exception has left execute_crew and the call of
\* stream_workshop_events has ended, the stored session has status error and
\* the exception's string as its result, exactly one error frame with that
\* string has been sent, and the sentinel is the frame after it.
C16_EscapeRecorded ==
    (ec_pc = "escaped" /\ stream_pc \in {"done", "raised"}) =>
        /\ IsStored
        /\ StoredSession.status = "error"
        /\ StoredSession.result = EscapedError
        /\ frames = <<ErrorFrame(EscapedError), DoneFrame>>

\* the published events of the observed invocation, by type
Published(type) ==
    {i \in 1..Len(tool_run.published) : tool_run.published[i].type = type}

IsPrefix(a, b) == Len(a) <= Len(b) /\ a = SubSeq(b, 1, Len(a))

PreviewLimitOf(tool) ==
    IF tool = "note_taker" THEN NotePreviewLimit ELSE PreviewLimit

OrderedByCreation ==
    \A i, j \in 1..Len(stored_sessions) :
        i < j => stored_sessions[i].created_at > stored_sessions[j].created_at

\* --------------------------------------------------------------------- C17
\* C17: after any sequence of save_session calls the stored list holds at
\* most MAX_SESSIONS sessions, ordered most recently created first.
C17_NewestFirstWithinCap ==
    /\ Len(stored_sessions) <= MAX_SESSIONS
    /\ OrderedByCreation

\* --------------------------------------------------------------------- C18
\* C18: no two stored sessions share an id; get_session of an id returns the
\* version last saved when the id is stored and nothing when it is not; and
\* a save of a stored id replaces the entry where it stands, the length of
\* the list and every other entry staying as they were.
C18_ReplaceInPlace ==
    /\ [](\A i, j \in 1..Len(stored_sessions) :
              i # j => stored_sessions[i].id # stored_sessions[j].id)
    /\ [](\A id \in 1..(MaxSessionsCreated + 1) :
              IF IndexOfId(stored_sessions, id) # 0
              THEN /\ id \in DOMAIN saved_versions
                   /\ GetSession(stored_sessions, id) = saved_versions[id]
              ELSE GetSession(stored_sessions, id) = None)
    /\ [][\A id \in 1..MaxSessionsCreated :
            \A status \in {"complete", "error"} :
              (FinishSession(id, status) /\ IndexOfId(stored_sessions, id) # 0)
              => LET idx == IndexOfId(stored_sessions, id)
                 IN /\ Len(stored_sessions') = Len(stored_sessions)
                    /\ stored_sessions'[idx] = saved_versions'[id]
                    /\ stored_sessions'[idx].status = status
                    /\ \A i \in 1..Len(stored_sessions) :
                          i # idx => stored_sessions'[i] = stored_sessions[i]]_vars

C18_Witness ==
    /\ Len(stored_sessions) = MAX_SESSIONS
    /\ stored_sessions[1].status = "running"
    /\ stored_sessions[2].status = "error"
    /\ stored_sessions[Len(stored_sessions)].status = "running"
    /\ Cardinality(DOMAIN saved_versions) > MAX_SESSIONS

\* --------------------------------------------------------------------- C19
\* C19: an invocation of any of the four tools has published nothing and
\* done no work before its tool_call; between the tool_call and the work's
\* end it has published that one event only; after the work it publishes
\* one tool_result of the same tool; and what it returns is its full
\* output, whatever the preview shows.
C19_CallWorkResultReturn ==
    /\ tool_run.pc = "ready" =>
          /\ tool_run.published = <<>>
          /\ tool_run.notes = tool_run.notes_before
    /\ tool_run.pc = "called" =>
          /\ Len(tool_run.published) = 1
          /\ tool_run.notes = tool_run.notes_before
    /\ tool_run.pc \in {"called", "worked"} =>
          /\ Len(tool_run.published) = 1
          /\ tool_run.published[1].type = "tool_call"
          /\ tool_run.published[1].metadata.tool = tool_run.tool
    /\ tool_run.pc \in {"resulted", "returned"} =>
          /\ Len(tool_run.published) = 2
          /\ tool_run.published[1].type = "tool_call"
          /\ tool_run.published[2].type = "tool_result"
          /\ tool_run.published[1].metadata.tool = tool_run.tool
          /\ tool_run.published[2].metadata.tool = tool_run.tool
          /\ tool_run.notes =
                 NotesAfter(tool_run.notes_before, tool_run.tool, tool_run.args)
    /\ tool_run.pc = "returned" => tool_run.returned = tool_run.out

C19_Witness ==
    /\ tool_run.pc = "returned"
    /\ tool_run.tool = "note_taker"
    /\ tool_run.args.action = "retrieve"
    /\ Len(tool_run.returned) = 301
    /\ Len(tool_run.published[2].content) = 300
    /\ tool_run.returned # tool_run.published[2].content

\* --------------------------------------------------------------------- C20
\* C20: the content of every published tool_result is a prefix of the
\* tool's output, of at most 500 characters for web_search, calculator and
\* text_analyzer and at most 300 for note_taker.
C20_PreviewBounded ==
    \A i \in Published("tool_result") :
        /\ IsPrefix(tool_run.published[i].content, tool_run.out)
        /\ Len(tool_run.published[i].content) <= PreviewLimitOf(tool_run.tool)

\* --------------------------------------------------------------------- C21
\* a tool_result event whose content is the error marker of its tool
IsFailedToolResult(e) ==
    /\ e.type = "tool_result"
    /\ e.metadata.tool \in DOMAIN ErrorMarkers
    /\ e.content = ErrorMarkers[e.metadata.tool]

\* the last tool invocation of the worker ended on a caught exception
LastToolFailed ==
    \E tool \in DOMAIN ErrorMarkers : worker_tool_out = ErrorMarkers[tool]

\* the step that takes the worker out of the work of a tool: the worker is
\* back in the reasoning engine and has not raised, one more event has been
\* handed to _emit_sync, the string returned is a result string of that
\* tool, and the event the channel accepted (when it was not dropped) is
\* the tool_result of that tool carrying the string returned
C21_ToolStep ==
    (worker_pc = "in_tool" /\ worker_pc' # "in_tool") =>
        /\ worker_pc' = "running"
        /\ n_emitted' = n_emitted + 1
        /\ worker_tool_out' \in ToolOuts(worker_tool)
        /\ n_dropped' = n_dropped =>
              /\ Len(accepted') = Len(accepted) + 1
              /\ accepted'[Len(accepted')].type = "tool_result"
              /\ accepted'[Len(accepted')].metadata.tool = worker_tool
              /\ accepted'[Len(accepted')].content = worker_tool_out'

\* C21: a tool invocation whose work fails does not raise to the worker: it
\* publishes its tool_result event with the error marker as content and
\* returns that marker, the worker goes on, and when the worker then
\* returns, the run that has ended closes with crew_complete and has
\* yielded no error event.
C21_ToolFailureContained ==
    /\ [][C21_ToolStep]_vars
    /\ [](  (ec_pc = "ended" /\ worker_pc = "returned" /\ LastToolFailed) =>
               /\ yielded # <<>>
               /\ yielded[Len(yielded)].type = "crew_complete"
               /\ Indexes("error") = {})

C21_Witness ==
    /\ ec_pc = "ended"
    /\ worker_pc = "returned"
    /\ worker_tool_out = "Search error: "
    /\ \E i \in 1..Len(yielded) :
          /\ IsFailedToolResult(yielded[i])
          /\ yielded[i].metadata.tool = "web_search"
    /\ yielded[Len(yielded)].type = "crew_complete"

\* --------------------------------------------------------------------- C22
\* the saves of key made in run r among the first n saves of the process
SavesOf(key, r, n) ==
    {i \in 1..n : note_run.saves[i].key = key /\ note_run.saves[i].run = r}

Newest(S) == CHOOSE i \in S : \A j \in S : j <= i

\* C22: a note_taker retrieve of key k returns the content of the latest
\* save of k made before it in the same run, or the 'no note found' message
\* when k was not saved in that run; saves of an earlier run never count.
C22_RetrieveLatestOfRun ==
    LET last == note_run.last
        S == SavesOf(last.key, last.run, last.at)
    IN last.action = "retrieve" =>
          IF S = {}
          THEN last.returned = NoNoteFound(last.key)
          ELSE last.returned = <<note_run.saves[Newest(S)].content>>

\* in the second run of the process k1 was saved as n1, then as n2, and the
\* retrieve of k1 that followed returned n2
C22_Witness ==
    /\ note_run.last.action = "retrieve"
    /\ note_run.last.key = "k1"
    /\ note_run.last.run = 2
    /\ note_run.last.returned = <<"n2">>
    /\ \E i, j \in SavesOf("k1", 2, note_run.last.at) :
          /\ i < j
          /\ note_run.saves[i].content = "n1"
          /\ note_run.saves[j].content = "n2"

\* --------------------------------------------------------------- C23, C24
\* the answer of the plan-synthesis call cannot be parsed as JSON
Unparseable == ~ParseRaw(synthesis.raw).ok

AgentIdsOf(p) == {p.agents[i].id : i \in 1..Len(p.agents)}

\* at least one agent, at least one task, every task given to an agent of
\* the plan
IsValidPlan(p) ==
    /\ p.agents # <<>>
    /\ p.tasks # <<>>
    /\ \A i \in 1..Len(p.tasks) : p.tasks[i].agent_id \in AgentIdsOf(p)

\* C23: when the text returned by plan synthesis cannot be parsed as JSON,
\* plan_crew does not raise and returns the fallback plan: exactly two
\* agents, Researcher then Writer, and exactly two tasks, the first given
\* to the Researcher and the second to the Writer.
C23_FallbackOnUnparseable ==
    Unparseable =>
        /\ synthesis.pc \in {"answered", "returned"}
        /\ synthesis.pc = "returned" =>
              LET p == synthesis.result
              IN /\ synthesis.fallback
                 /\ Len(p.agents) = 2
                 /\ p.agents[1].name = "Researcher"
                 /\ p.agents[2].name = "Writer"
                 /\ p.agents[1].id # p.agents[2].id
                 /\ Len(p.tasks) = 2
                 /\ p.tasks[1].agent_id = p.agents[1].id
                 /\ p.tasks[2].agent_id = p.agents[2].id

\* the answer is prose around braces that hold no JSON
C23_Witness ==
    /\ synthesis.pc = "returned"
    /\ synthesis.raw.text = <<"t", "{", "t", "}">>
    /\ ~synthesis.raw.well_formed
    /\ synthesis.result = FallbackPlan

\* C24: whatever the plan-synthesis call returned, plan_crew does not raise
\* and the plan it returns has at least one agent and at least one task and
\* gives every task to an agent of the plan.
C24_AlwaysValidPlan ==
    /\ synthesis.pc # "raised"
    /\ synthesis.pc = "returned" => IsValidPlan(synthesis.result)

\* --------------------------------------------------------------- C25, C26
\* nothing of a run has happened: no session saved, no frame sent, no event
\* yielded or published, the engine and the worker not started
NothingStarted ==
    /\ save_log = <<>>
    /\ stored_sessions = <<>>
    /\ frames = <<>>
    /\ yielded = <<>>
    /\ n_emitted = 0
    /\ ec_pc = "not_started"
    /\ worker_pc = "not_started"

\* C25: the execute operation starts a run only for a plan with at least
\* one agent and at least one task; a plan without agents or without tasks
\* is rejected with no session saved, no event produced and the worker not
\* started, and a plan with both is not rejected.
C25_EmptyPlanRejected ==
    /\ (plan.agents = <<>> \/ plan.tasks = <<>>) =>
          /\ stream_pc \in {"request", "rejected"}
          /\ NothingStarted
    /\ (plan.agents # <<>> /\ plan.tasks # <<>>) => stream_pc # "rejected"
    /\ stream_pc = "request" => NothingStarted

C25_Witness ==
    /\ stream_pc = "rejected"
    /\ plan = PlanNoTasks
    /\ NothingStarted

\* C26: every plan the engine is started with through the execute operation
\* gives each of its tasks to an agent of the plan.
C26_EnginePlansResolved ==
    ec_pc # "not_started" =>
        \A i \in 1..Len(plan.tasks) : plan.tasks[i].agent_id \in AgentIdsOf(plan)

\* --------------------------------------------------------------- C27, C28
\* the names an event carries
NamesOf(e) == {e.agent_name, e.metadata.from, e.metadata.to} \ {""}

\* call r has ended with its terminal event of the given type
EndedWith(r, type) ==
    /\ pair.pc[r] = "ended"
    /\ pair.received[r] # <<>>
    /\ pair.received[r][Len(pair.received[r])].event.type = type

\* C27: as long as no call has started while another was between its first
\* line and the end of its finally block, every event a consumer has
\* received was created by its own run and names only its own run's agent,
\* and a run that has just started has an empty channel, an empty note
\* store, no active agent and no start times, whether the run before it
\* ended with crew_complete or with error.
C27_SerializedRunsIsolated ==
    ~pair.overlapped =>
        \A r \in RunIds :
            /\ \A i \in 1..Len(pair.received[r]) :
                  /\ pair.received[r][i].origin = r
                  /\ NamesOf(pair.received[r][i].event) \subseteq {PairAgents[r]}
            /\ pair.pc[r] = "first_agent" => RunStateFresh

\* run 1 ended with error, then run 2 ran, its worker saved a note, and it
\* ended with crew_complete having received its own tool events
C27_Witness ==
    /\ ~pair.overlapped
    /\ EndedWith(1, "error")
    /\ EndedWith(2, "crew_complete")
    /\ \E i \in 1..Len(pair.received[2]) :
          /\ pair.received[2][i].event.type = "tool_result"
          /\ pair.received[2][i].origin = 2

\* C28: the channel is the module's and the later call replaces it: every
\* event in it was published since the latest call started, whatever an
\* earlier call that is still running had published before is gone with the
\* channel it was in, and what the worker of the earlier call publishes
\* from then on is in the channel both consumers pull from.
C28_ChannelOfLatestRun ==
    /\ \A i \in 1..Len(event_queue.items) :
          event_queue.items[i].epoch = pair.epoch
    /\ (Busy(1) /\ Busy(2)) => pair.overlapped

\* the consumer of run 2 has received a tool event of run 1, and the
\* consumer of run 1 an agent_complete that names the agent of run 2
C28_Witness ==
    /\ pair.overlapped
    /\ \E i \in 1..Len(pair.received[2]) :
          /\ pair.received[2][i].origin = 1
          /\ pair.received[2][i].event.type = "tool_call"
    /\ \E i \in 1..Len(pair.received[1]) :
          /\ pair.received[1][i].event.type = "agent_complete"
          /\ pair.received[1][i].event.agent_name = PairAgents[2]

\* --------------------------------------------------------------------- C29
SentinelSent == SentinelIndexes # {}

\* the part of C29 about execute_crew: once the worker is done the run
\* yields a terminal event
PollLoopEnds == WorkerDone ~> TerminalYielded

\* C29: with a consumer that keeps pulling, once the worker has returned or
\* raised the run yields its terminal event and the stream yields the
\* sentinel.
C29_TerminalAndSentinel ==
    /\ PollLoopEnds
    /\ WorkerDone ~> SentinelSent

\* --------------------------------------------------------------------- C30
\* the columns update_document may change
Changeable == AllowedFields \cup {"updated_at"}

\* C30: whatever update_document calls have been made, every document has
\* the id, user_email, filename and file_path (and every other column that
\* is not allowed) it was saved with; a call changes only allowed columns
\* and updated_at, only those of the keys given, and only of the document
\* named; and a call whose map holds no allowed key changes no row at all.
C30_UpdateFrame ==
    /\ [](\A d \in DOMAIN vault.rows :
             \A c \in Columns \ Changeable :
                 vault.rows[d][c] = vault.at_save[d][c])
    /\ [][vault'.ops = vault.ops + 1 =>
            /\ DOMAIN vault'.rows = DOMAIN vault.rows
            /\ \A d \in DOMAIN vault.rows :
                  \A c \in Columns :
                     vault'.rows[d][c] # vault.rows[d][c] =>
                        /\ d = vault'.last.doc_id
                        /\ c \in (vault'.last.keys \cap AllowedFields)
                                 \cup {"updated_at"}
            /\ vault'.last.keys \cap AllowedFields = {} =>
                  vault'.rows = vault.rows]_vars

\* the test of the suite: after an update with user_email, id and file_path
\* the row is as saved; and after one more with status and user_email the
\* status has changed and the rest has not
C30_Witness ==
    /\ "d1" \in DOMAIN vault.rows
    /\ vault.ops = 2
    /\ vault.last = [doc_id |-> "d1", keys |-> {"status", "user_email"}]
    /\ vault.rows["d1"].status = "v1"
    /\ vault.rows["d1"].user_email = "user@example.com"
    /\ vault.rows["d1"].updated_at > vault.at_save["d1"].updated_at

\* --------------------------------------------------------------------- C31
\* the ids save_document has returned
SavedIds == DOMAIN vault.at_save

\* C31: for every id save_document returned, get_document yields the
\* document with the filename and user_email it was saved with, and with
\* status pending as long as no update_document changed it, until
\* delete_document is called on it, and nothing afterwards; get_document of
\* an id never returned yields nothing; list_documents of a user returns
\* exactly the documents saved with that user's email and not deleted.
C31_GetSavedUntilDeleted ==
    /\ \A d \in SavedIds \ vault.deleted :
          LET doc == GetDocument(vault.rows, d)
          IN /\ doc # NoDocument
             /\ doc.id = d
             /\ doc.filename = vault.at_save[d].filename
             /\ doc.user_email = vault.at_save[d].user_email
             /\ d \notin vault.updated => doc.status = "pending"
    /\ \A d \in vault.deleted : GetDocument(vault.rows, d) = NoDocument
    /\ \A d \in VaultTargets \ SavedIds : GetDocument(vault.rows, d) = NoDocument
    /\ \A u \in UserEmails :
          {doc.id : doc \in ListDocuments(vault.rows, u)} =
              {d \in SavedIds \ vault.deleted :
                  vault.at_save[d].user_email = u}

\* two documents of two users, the second updated, the
\* first then deleted: it is gone, and the other user's list is the second
C31_Witness ==
    /\ SavedIds = {"d1", "d2"}
    /\ vault.deleted = {"d1"}
    /\ vault.updated = {"d2"}
    /\ vault.at_save["d1"].user_email = "user@example.com"
    /\ vault.at_save["d2"].user_email = "other@example.com"
    /\ GetDocument(vault.rows, "d1") = NoDocument
    /\ GetDocument(vault.rows, "d2").status = "v1"
    /\ ListDocuments(vault.rows, "user@example.com") = {}
    /\ Cardinality(ListDocuments(vault.rows, "other@example.com")) = 1

\* --------------------------------------------------------------------- C32
\* the step just taken called _emit_sync once, with event e
Publishes(e) ==
    /\ n_emitted' = n_emitted + 1
    /\ event_queue' = EmitSync(event_queue, e)

HandoffsAccepted ==
    Cardinality({k \in 1..Len(accepted) : accepted[k].type = "handoff"})

\* C32: a step notification whose role maps to an agent other than the
\* active one publishes agent_complete of the active agent and then can
\* only go on to publish the handoff from the active agent to the new one,
\* then agent_start of the new one, making it the active agent; as long as
\* no event is dropped the three lie next to one another in the channel in
\* that order, and the number of handoffs equals the number of changes
\* detected (one less while the handoff of the last change is pending), in
\* the delivered stream of a finished run too.
C32_HandoffPerChange ==
    /\ [][\A agent_role \in StepRoles :
              (DetectsChange(agent_role) /\ StepCallback(agent_role))
              => /\ agent_changes' = agent_changes + 1
                 /\ Publishes(AgentCompleteEvent(current_agent_name))
                 /\ worker_pc' = "step_handoff"
                 /\ worker_new_name' = crewai_role_to_name[agent_role]
                 /\ current_agent_name' = current_agent_name]_vars
    /\ [][(worker_pc = "step_handoff" /\ worker_pc' # worker_pc)
              => /\ Publishes(HandoffEvent(current_agent_name,
                                           worker_new_name))
                 /\ worker_pc' = "step_start"
                 /\ worker_new_name' = worker_new_name
                 /\ current_agent_name' = current_agent_name]_vars
    /\ [][(worker_pc = "step_start" /\ worker_pc' # worker_pc)
              => /\ Publishes(AgentStartEvent(worker_new_name))
                 /\ current_agent_name' = worker_new_name
                 /\ worker_new_name \in agent_start_times'
                 /\ worker_pc' = "running"]_vars
    /\ [][(worker_pc \in {"step_handoff", "step_start"})
              => (n_emitted' # n_emitted => worker_pc' # worker_pc)]_vars
    /\ [](NoEventDropped =>
             /\ \A k \in 1..Len(accepted) :
                   accepted[k].type = "handoff" =>
                      /\ k > 1
                      /\ accepted[k - 1] =
                            [AgentCompleteEvent(accepted[k].metadata.from)
                                EXCEPT !.timestamp = accepted[k].timestamp - 1]
                      /\ k < Len(accepted) =>
                            accepted[k + 1] =
                               [AgentStartEvent(accepted[k].metadata.to)
                                   EXCEPT !.timestamp =
                                       accepted[k].timestamp + 1]
                      /\ k = Len(accepted) => worker_pc = "step_start"
             /\ HandoffsAccepted =
                   IF worker_pc = "step_handoff" THEN agent_changes - 1
                   ELSE agent_changes
             /\ ec_pc = "ended" =>
                   Cardinality(Indexes("handoff")) = agent_changes)

\* the run of the spec's example: the role changes from A to B once, nothing
\* is dropped, and the one handoff delivered lies between A's agent_complete
\* and B's agent_start
C32_Witness ==
    /\ ec_pc = "ended"
    /\ plan = PlanAB
    /\ NoEventDropped
    /\ agent_changes = 1
    /\ \E i \in 2..(Len(yielded) - 1) :
          /\ Indexes("handoff") = {i}
          /\ yielded[i].metadata.from = "A"
          /\ yielded[i].metadata.to = "B"
          /\ IsEvent(i - 1, "agent_complete", "A")
          /\ IsEvent(i + 1, "agent_start", "B")

\* --------------------------------------------------------------------- C33
\* the notification carries no role, or a role the plan does not declare
Unrecognised(agent_role) ==
    agent_role = None \/ agent_role \notin DOMAIN crewai_role_to_name

\* no notification of the run has named a declared role
NoStepRecognised == same_agent_steps = 0 /\ agent_changes = 0

\* C33: a step notification with no role or with an undeclared role
\* publishes nothing, leaves the active agent and the start-time table as
\* they were and leaves the worker running; and a run of a plan with agents
\* whose worker returned without any notification naming a declared role
\* ends with agent_complete of the plan's first agent followed by
\* crew_complete.
C33_UnrecognisedStepIgnored ==
    /\ [][\A agent_role \in StepRoles :
              (Unrecognised(agent_role) /\ StepCallback(agent_role))
              => /\ n_emitted' = n_emitted
                 /\ event_queue' = event_queue
                 /\ accepted' = accepted
                 /\ current_agent_name' = current_agent_name
                 /\ agent_start_times' = agent_start_times
                 /\ worker_pc' = "running"]_vars
    /\ []((/\ EngineFinished
            /\ worker_pc = "returned"
            /\ plan.agents # <<>>
            /\ NoStepRecognised)
             => /\ Len(yielded) >= 2
                /\ yielded[Len(yielded)].type = "crew_complete"
                /\ IsEvent(Len(yielded) - 1, "agent_complete",
                           SortedByOrder(plan.agents)[1].name))

\* both operations of the worker were notifications nobody recognised: the
\* plan registers no tool, and a task completion would have published
C33_Witness ==
    /\ ec_pc = "ended"
    /\ plan = PlanSolo
    /\ worker_pc = "returned"
    /\ worker_ops = MaxWorkerOps
    /\ n_emitted = 0
    /\ NoStepRecognised
    /\ Len(yielded) = 3
    /\ IsEvent(2, "agent_complete", "Solo")
    /\ yielded[3].type = "crew_complete"

\* --------------------------------------------------------------------- C34
\* the agent_complete events of agent a delivered between its latest
\* agent_start before position i and position i
CompletesInActivation(a, i) ==
    LET starts == {s \in 1..i : IsEvent(s, "agent_start", a)}
        s0 == CHOOSE s \in starts : \A t \in starts : t <= s
    IN {j \in s0..i : IsEvent(j, "agent_complete", a)}

CompletesAccepted ==
    Cardinality({k \in 1..Len(accepted) :
                    accepted[k].type = "agent_complete"})

\* C34: as long as no event is dropped, every delivered handoff has exactly
\* one agent_complete of the departing agent between that agent's
\* agent_start and the handoff, and the worker publishes agent_complete
\* only on a detected transition, so that the channel has carried no more
\* agent_complete events than transitions were detected.
C34_OneCompletePerActivation ==
    NoEventDropped =>
        /\ \A i \in Indexes("handoff") :
              Cardinality(CompletesInActivation(yielded[i].metadata.from, i))
                  = 1
        /\ CompletesAccepted <= agent_changes

\* --------------------------------------------------------------------- C35
\* crew.kickoff has been started and has neither returned nor raised
WorkerUnfinished == worker_pc \notin {"not_started", "returned", "raised"}

\* C35: while the worker's call is unfinished the engine stays in its poll
\* loop and has yielded no terminal event; a step of the engine taken in
\* the loop with the worker unfinished leaves it in the loop; and the
\* worker's call runs beside the engine: no step of the worker yields an
\* event or moves the engine, and no step of the engine after the start
\* moves the worker.
C35_NoTerminalWhileWorkerRuns ==
    /\ [](WorkerUnfinished => (ec_pc = "poll" /\ ~TerminalYielded))
    /\ [][(ec_pc = "poll" /\ WorkerUnfinished /\ worker_pc' = worker_pc)
            => ec_pc' = "poll"]_vars
    /\ [][(worker_pc # "not_started" /\ worker_pc' # worker_pc)
            => (yielded' = yielded /\ ec_pc' = ec_pc)]_vars
    /\ [][(worker_pc # "not_started" /\ yielded' # yielded)
            => worker_vars' = worker_vars]_vars

\* the engine has yielded a tool_call while the worker is still inside that
\* tool, the channel is empty (only a timeout can come next), and no
\* terminal event has been yielded
C35_Witness ==
    /\ worker_pc = "in_tool"
    /\ ec_pc = "poll"
    /\ event_queue.items = <<>>
    /\ Len(yielded) >= 2
    /\ yielded[Len(yielded)].type = "tool_call"
    /\ ~TerminalYielded

\* --------------------------------------------------------------------- C36
\* the agent sorted(plan.agents, key=order) puts first
LowestOrderAgent == SortedByOrder(plan.agents)[1]

\* C36: for a plan with agents whose construction succeeded, when the
\* engine is about to start the worker it has yielded exactly one event,
\* agent_start of the agent of lowest order, nothing has been published,
\* and that agent is the active one with its start time recorded; the
\* worker is started in that state; and from then on that agent_start is
\* the first event of the run, so every tool event comes after it.
C36_FirstAgentStartsRun ==
    /\ []((ec_pc = "kickoff" /\ plan.agents # <<>>) =>
             /\ worker_pc = "not_started"
             /\ n_emitted = 0
             /\ Len(yielded) = 1
             /\ IsEvent(1, "agent_start", LowestOrderAgent.name)
             /\ current_agent_name = LowestOrderAgent.name
             /\ LowestOrderAgent.name \in agent_start_times)
    /\ [][(worker_pc = "not_started" /\ worker_pc' # worker_pc)
            => (ec_pc = "kickoff" /\ current_agent_name' = current_agent_name)]_vars
    /\ []((worker_pc # "not_started" /\ plan.agents # <<>>) =>
             /\ IsEvent(1, "agent_start", LowestOrderAgent.name)
             /\ \A i \in Indexes("tool_call") \cup Indexes("tool_result") :
                   i > 1)

\* B is listed first and owns the first task, A has the lowest order: the
\* run opened with A's agent_start and B's tool event was delivered later
C36_Witness ==
    /\ plan = PlanReversed
    /\ plan.tasks[1].agent_id = "b1"
    /\ IsEvent(1, "agent_start", "A")
    /\ Indexes("tool_call") # {}
    /\ ec_pc = "ended"

\* --------------------------------------------------------------------- C37
AgentNames == {plan.agents[i].name : i \in 1..Len(plan.agents)}

\* C37: every delivered tool_call and tool_result carries the name of an
\* agent of the plan (the one active when the tool was invoked), and only
\* crew_complete and error events have an empty agent_name.
C37_ToolEventsNameAgent ==
    \A i \in 1..Len(yielded) :
        /\ yielded[i].type \in {"tool_call", "tool_result"} =>
              yielded[i].agent_name \in AgentNames
        /\ yielded[i].agent_name = "" => yielded[i].type \in TerminalTypes

\* --------------------------------------------------------------------- C38
\* C38: once the run is over, the session in the store has status complete
\* only if a crew_complete event was delivered, and a run in which the
\* engine delivered an error event is stored with status error.
C38_StatusFollowsTerminal ==
    (stream_pc = "done" /\ IsStored) =>
        /\ StoredSession.status = "complete" => Indexes("crew_complete") # {}
        /\ Indexes("error") # {} => StoredSession.status = "error"

\* --------------------------------------------------------------------- C39
\* the role-to-name table of the run has been built
RoleTableBuilt == ec_pc \notin {"not_started", "construct", "escaped"} /\ exc = ""

\* C39: once the table is built, the role of every agent of the plan is
\* mapped to that agent's own name, so that a notification carrying the
\* role names that agent, also in a plan with two agents of one role or of
\* one name.
C39_RoleMapsToOwnName ==
    RoleTableBuilt =>
        \A i \in 1..Len(plan.agents) :
            /\ plan.agents[i].role \in DOMAIN crewai_role_to_name
            /\ crewai_role_to_name[plan.agents[i].role] = plan.agents[i].name

====
